---- MODULE Spec2Model ----
(***************************************************************************)
(* Collect Smole Objects (Blender add-on): the volume calculator, the      *)
(* scene analysis, the threshold resolver, the partitioner and the UI      *)
(* operators that drive them, as a state machine over a small scene.       *)
(*                                                                         *)
(* Volumes are integers (abstract cubic units).  Values the code computes  *)
(* by division (mean, percentage of a base, interpolated percentile) are   *)
(* exact rationals [num, den] with den > 0; the code's floating point      *)
(* rounding is not modelled.                                               *)
(***************************************************************************)
EXTENDS Integers, Sequences, FiniteSets, TLC

\* ------------------------------------------------------------------ bounds
\* number of objects in bpy.data.objects
NObj == 3
\* largest volume of a solid in the scene
MaxVol == 2
\* largest number of valid objects when the object count of a percentile is
\* computed on its own
MaxValid == 50
\* largest population whose statistics are computed in floating point, and
\* its largest volume, in tenths
MaxPop == 3
MaxTenths == 8
\* largest population whose natural gaps are looked for
MaxGapPop == 7

Objs == 1..NObj
\* reference_obj = None
NoObject == 0

\* ------------------------------------------------------------- state space
VARIABLES
    objects,           \* bpy.data.objects: object -> its type and evaluated geometry
    users_collection,  \* object -> the collections it is linked to
    collections,       \* bpy.data.collections: name -> [hide_viewport, in_scene, locked]
    selected,          \* objects whose selection flag is set
    props,             \* scene.collect_smole_props
    temp_meshes,       \* objects whose temporary evaluated mesh is outstanding
    ever_collected,    \* objects some run has counted as collected (history)
    last               \* what the most recent user action did and returned

vars == <<objects, users_collection, collections, selected, props,
          temp_meshes, ever_collected, last>>

\* --------------------------------------------------------------- rationals
Rat(n, d) == [num |-> n, den |-> d]
Zero == Rat(0, 1)
RatOfInt(n) == Rat(n, 1)
\* a < b, a = b for rationals with positive denominators
RatLess(a, b) == a.num * b.den < b.num * a.den
RatEq(a, b) == a.num * b.den = b.num * a.den

\* ------------------------------------------------------------ object kinds
\* An object other than a mesh (an empty, a camera, a light).
NonMesh ==
    [type |-> "EMPTY", eval |-> "none", vertices |-> 0, polygons |-> 0,
     calc |-> "ok", volume |-> 0]
\* A mesh object whose evaluated mesh cannot be produced (to_mesh gives None).
NoMeshData ==
    [type |-> "MESH", eval |-> "none", vertices |-> 0, polygons |-> 0,
     calc |-> "ok", volume |-> 0]
\* A mesh object whose evaluation raises (to_mesh throws).
EvalRaises ==
    [type |-> "MESH", eval |-> "raises", vertices |-> 0, polygons |-> 0,
     calc |-> "ok", volume |-> 0]
\* A mesh object without vertices.
EmptyMesh ==
    [type |-> "MESH", eval |-> "mesh", vertices |-> 0, polygons |-> 0,
     calc |-> "ok", volume |-> 0]
\* A mesh on which transform / from_mesh / calc_volume raises.
CalcRaises ==
    [type |-> "MESH", eval |-> "mesh", vertices |-> 8, polygons |-> 6,
     calc |-> "raises", volume |-> 0]
\* A mesh whose signed volume is v (0: planar, negative: inverted winding).
Solid(v) ==
    [type |-> "MESH", eval |-> "mesh", vertices |-> 8, polygons |-> 6,
     calc |-> "ok", volume |-> v]



\* ------------------------------------------------------------ the scene
MasterCollection == "Scene Collection"
DestinationName == "Littles"

\* the collections of the current scene: its master collection and the
\* collections of bpy.data.collections linked under it
SceneCollections(cols) ==
    {MasterCollection} \cup {c \in DOMAIN cols : cols[c].in_scene}

\* context.scene.objects
scene_objects == {o \in Objs : users_collection[o] \cap SceneCollections(collections) # {}}

\* the object can be selected in the viewport: some collection of the scene
\* that holds it is not hidden
Selectable(o) ==
    \E c \in users_collection[o] \cap SceneCollections(collections) :
        IF c = MasterCollection THEN TRUE ELSE ~collections[c].hide_viewport

\* context.selected_objects when sel are the objects whose selection flag is set
selected_objects(sel) == {o \in sel : Selectable(o)}

\* the elements of a set of objects as a sequence in ascending index order
RECURSIVE InOrder(_)
InOrder(S) ==
    IF S = {} THEN <<>>
    ELSE LET m == CHOOSE x \in S : \A y \in S : x <= y
         IN <<m>> \o InOrder(S \ {m})

\* ------------------------------------------------------------ utils.py
validate_scene_has_meshes ==
    LET mesh_count == Cardinality({o \in scene_objects : objects[o].type = "MESH"})
    IN IF mesh_count = 0
       THEN [success |-> FALSE, error |-> "Scene contains no mesh objects to process."]
       ELSE [success |-> TRUE, error |-> ""]

validate_selection(sel) ==
    LET selected_count == Cardinality(selected_objects(sel))
    IN IF selected_count = 0
       THEN [success |-> FALSE, error |-> "No object selected."]
       ELSE IF selected_count > 1
       THEN [success |-> FALSE, error |-> "Please select exactly one object."]
       ELSE [success |-> TRUE, error |-> ""]

validate_object_is_mesh(obj) ==
    IF objects[obj].type # "MESH"
    THEN [success |-> FALSE, error |-> "Selected object is not a MESH."]
    ELSE [success |-> TRUE, error |-> ""]

\* The temporary evaluated meshes: those outstanding, and those that were
\* still outstanding when the mesh of another object was acquired.
\* measured: the objects calculate_object_volume was called on during the
\* current operation.
NoMeshes == [outstanding |-> {}, overlapped |-> {}, measured |-> {}]

\* obj.evaluated_get(depsgraph).to_mesh(): the object now holds a temporary mesh
to_mesh(obj, meshes) ==
    [meshes EXCEPT !.outstanding = @ \cup {obj},
                   !.overlapped = @ \cup (meshes.outstanding \ {obj})]

\* the temporary mesh kept
keep_mesh(obj, meshes) == meshes

\* obj.evaluated_get(depsgraph).to_mesh_clear(): the temporary mesh is freed
to_mesh_clear(obj, meshes) ==
    [meshes EXCEPT !.outstanding = @ \ {obj}]

\* meshes: the temporary meshes before the call; the result carries those
\* after it
validate_mesh_not_empty(obj, meshes) ==
    IF objects[obj].eval = "raises"
    THEN [success |-> FALSE, error |-> "Error evaluating mesh", meshes |-> meshes]
    ELSE IF objects[obj].eval = "none"
    THEN [success |-> FALSE, error |-> "Object has no mesh data.", meshes |-> meshes]
    ELSE IF objects[obj].vertices = 0
    THEN [success |-> FALSE, error |-> "Object has no vertices (empty mesh).",
          meshes |-> to_mesh_clear(obj, to_mesh(obj, meshes))]
    ELSE [success |-> TRUE, error |-> "", meshes |-> to_mesh(obj, meshes)]

\* every volume accepted
accept_any_volume(volume) == [success |-> TRUE, error |-> ""]

validate_volume(volume) ==
    IF volume <= 0
    THEN IF volume = 0
         THEN [success |-> FALSE, error |-> "Object has zero volume (possibly 2D/planar geometry)."]
         ELSE [success |-> FALSE, error |-> "Object has invalid negative volume."]
    ELSE [success |-> TRUE, error |-> ""]

\* bpy.data.collections.new(name): Blender makes the name unique
NewCollectionName(name, cols) ==
    IF name \notin DOMAIN cols THEN name
    ELSE IF (name \o ".001") \notin DOMAIN cols THEN name \o ".001"
    ELSE name \o ".002"

\* the collections with one more entry
WithCollection(cols, name, rec) ==
    [c \in DOMAIN cols \cup {name} |-> IF c = name THEN rec ELSE cols[c]]

\* a collection made on every call, without the look-up by name
always_create_collection(collection_name, cols) ==
    LET new_collection == NewCollectionName(collection_name, cols)
    IN [collection |-> new_collection,
        collections |->
            WithCollection(cols, new_collection,
                [hide_viewport |-> TRUE, in_scene |-> TRUE, locked |-> FALSE]),
        created |-> TRUE]

\* returns the collection's name and the new value of bpy.data.collections
get_or_create_collection(collection_name, cols) ==
    IF collection_name \in DOMAIN cols
    THEN [collection |-> collection_name, collections |-> cols, created |-> FALSE]
    ELSE LET new_collection == NewCollectionName(collection_name, cols)
         IN [collection |-> new_collection,
             collections |->
                 WithCollection(cols, new_collection,
                     [hide_viewport |-> TRUE, in_scene |-> TRUE, locked |-> FALSE]),
             created |-> TRUE]

\* collection.objects.link(obj): Blender raises when the object is already in
\* the collection or the collection is library data that takes no links
objects_link(obj, col, uc, cols) ==
    IF col \in uc[obj] \/ cols[col].locked
    THEN [raised |-> TRUE, users_collection |-> uc]
    ELSE [raised |-> FALSE, users_collection |-> [uc EXCEPT ![obj] = @ \cup {col}]]

\* the object linked to the target and left in its other collections
link_without_unlink(obj, target_collection, uc, cols) ==
    objects_link(obj, target_collection, uc, cols)

\* uc: the link table before the call; the result carries the table after it
\* and whether the call raised
move_object_to_collection(obj, target_collection, uc, cols) ==
    LET unlinked == [uc EXCEPT ![obj] = {}]
    IN objects_link(obj, target_collection, unlinked, cols)

\* ------------------------------------------------------------ core.py
VolumeFailure(error, meshes) ==
    [success |-> FALSE, volume |-> 0, error |-> error, meshes |-> meshes]

calculate_object_volume(obj, before) ==
    LET is_mesh == validate_object_is_mesh(obj)
        meshes == [before EXCEPT !.measured = @ \cup {obj}]
    IN IF ~is_mesh.success THEN VolumeFailure(is_mesh.error, meshes)
       ELSE LET not_empty == validate_mesh_not_empty(obj, meshes)
            IN IF ~not_empty.success
               THEN VolumeFailure(not_empty.error, not_empty.meshes)
               ELSE IF objects[obj].calc = "raises"
               THEN VolumeFailure("Error calculating volume",
                                  to_mesh_clear(obj, not_empty.meshes))
               ELSE LET volume == objects[obj].volume
                        cleared == to_mesh_clear(obj, not_empty.meshes)
                        valid == validate_volume(volume)
                    IN IF ~valid.success
                       THEN VolumeFailure(valid.error, cleared)
                       ELSE [success |-> TRUE, volume |-> volume, error |-> "",
                             meshes |-> cleared]


\* ------------------------------------------------------------ analysis.py
\* int(x) of a non-negative quotient a / b
Floor(a, b) == a \div b

\* the value at the index below, no interpolation
percentile_at_lower_index(sorted_values, p) ==
    RatOfInt(sorted_values[Floor(p * (Len(sorted_values) - 1), 100) + 1])

\* percentile p of the ascending sequence sorted_values, by linear
\* interpolation at index (p / 100) * (n - 1)
Percentile(sorted_values, p) ==
    LET n == Len(sorted_values)
        lower_idx == Floor(p * (n - 1), 100)
        upper_idx == IF lower_idx + 1 < n - 1 THEN lower_idx + 1 ELSE n - 1
        lower_val == sorted_values[lower_idx + 1]
        upper_val == sorted_values[upper_idx + 1]
        \* fraction = idx - lower_idx, in hundredths
        fraction == (p * (n - 1)) % 100
    IN Rat(100 * lower_val + fraction * (upper_val - lower_val), 100)

\* {percentile: value} for the percentiles of percentile_list
calculate_percentiles(sorted_values, percentile_list) ==
    IF sorted_values = <<>> THEN [p \in {} |-> Zero]
    ELSE [p \in percentile_list |-> Percentile(sorted_values, p)]

DefaultPercentiles == {10, 20, 25, 50, 75, 80, 90}

\* list.sort(key=volume): stable insertion of pair into an ascending sequence
RECURSIVE InsertByVolume(_, _)
InsertByVolume(pair, sorted) ==
    IF sorted = <<>> THEN <<pair>>
    ELSE IF pair[2] < Head(sorted)[2] THEN <<pair>> \o sorted
    ELSE <<Head(sorted)>> \o InsertByVolume(pair, Tail(sorted))

RECURSIVE SortByVolume(_)
SortByVolume(pairs) ==
    IF pairs = <<>> THEN <<>>
    ELSE InsertByVolume(pairs[Len(pairs)], SortByVolume(SubSeq(pairs, 1, Len(pairs) - 1)))

RECURSIVE SumSeq(_)
SumSeq(values) == IF values = <<>> THEN 0 ELSE Head(values) + SumSeq(Tail(values))

\* the loop of analyze_scene over mesh_objects
RECURSIVE analyze_loop(_, _)
analyze_loop(mesh_objects, acc) ==
    LET measured(obj, m) ==
            IF m.success
            THEN [acc EXCEPT !.valid_volumes = Append(@, <<obj, m.volume>>),
                             !.valid_objects = @ + 1,
                             !.meshes = m.meshes]
            ELSE [acc EXCEPT !.invalid_objects = @ + 1,
                             !.invalid_reasons = Append(@, <<obj, m.error>>),
                             !.meshes = m.meshes]
        visit(obj) == measured(obj, calculate_object_volume(obj, acc.meshes))
    IN IF mesh_objects = <<>> THEN acc
       ELSE analyze_loop(Tail(mesh_objects), visit(Head(mesh_objects)))

\* the mean taken whatever the number of valid objects, the volumes left in
\* the order they were measured in
analysis_without_early_return(meshes) ==
    LET mesh_objects == InOrder({o \in scene_objects : objects[o].type = "MESH"})
        averaged(loop) ==
            [total_objects |-> Len(mesh_objects), valid_objects |-> loop.valid_objects,
             invalid_objects |-> loop.invalid_objects,
             invalid_reasons |-> loop.invalid_reasons,
             min_volume |-> Zero, max_volume |-> Zero,
             mean_volume |->
                 Rat(SumSeq([i \in 1..loop.valid_objects |-> loop.valid_volumes[i][2]]),
                     loop.valid_objects),
             median_volume |-> Zero, variance |-> Zero,
             percentiles |-> [p \in {} |-> Zero],
             volumes |-> loop.valid_volumes, meshes |-> loop.meshes]
    IN averaged(analyze_loop(mesh_objects,
                    [valid_volumes |-> <<>>, valid_objects |-> 0,
                     invalid_objects |-> 0, invalid_reasons |-> <<>>,
                     meshes |-> meshes]))

analyze_scene(meshes) ==
    LET mesh_objects == InOrder({o \in scene_objects : objects[o].type = "MESH"})
        results == [total_objects |-> Len(mesh_objects), valid_objects |-> 0,
                    invalid_objects |-> 0, invalid_reasons |-> <<>>,
                    min_volume |-> Zero, max_volume |-> Zero, mean_volume |-> Zero,
                    median_volume |-> Zero, variance |-> Zero,
                    percentiles |-> [p \in {} |-> Zero], volumes |-> <<>>,
                    meshes |-> meshes]
        statistics(counted, volume_values, n, total) ==
            [counted EXCEPT
               !.min_volume = RatOfInt(volume_values[1]),
               !.max_volume = RatOfInt(volume_values[n]),
               !.mean_volume = Rat(total, n),
               !.median_volume =
                   IF n % 2 = 0
                   THEN Rat(volume_values[n \div 2] + volume_values[(n \div 2) + 1], 2)
                   ELSE RatOfInt(volume_values[(n \div 2) + 1]),
               \* sum((v - mean) ** 2) / n, over the common denominator n^3
               !.variance =
                   Rat(SumSeq([i \in 1..n |->
                           (n * volume_values[i] - total) * (n * volume_values[i] - total)]),
                       n * n * n),
               !.percentiles = calculate_percentiles(volume_values, DefaultPercentiles)]
        sorted(counted, valid_volumes) ==
            statistics([counted EXCEPT !.volumes = valid_volumes],
                       [i \in 1..counted.valid_objects |-> valid_volumes[i][2]],
                       counted.valid_objects,
                       SumSeq([i \in 1..counted.valid_objects |-> valid_volumes[i][2]]))
        measured(loop) ==
            IF loop.valid_objects = 0
            THEN [results EXCEPT !.valid_objects = loop.valid_objects,
                                 !.invalid_objects = loop.invalid_objects,
                                 !.invalid_reasons = loop.invalid_reasons,
                                 !.meshes = loop.meshes]
            ELSE sorted([results EXCEPT !.valid_objects = loop.valid_objects,
                                        !.invalid_objects = loop.invalid_objects,
                                        !.invalid_reasons = loop.invalid_reasons,
                                        !.meshes = loop.meshes],
                        SortByVolume(loop.valid_volumes))
    IN IF results.total_objects = 0 THEN results
       ELSE measured(analyze_loop(mesh_objects,
                         [valid_volumes |-> <<>>, valid_objects |-> 0,
                          invalid_objects |-> 0, invalid_reasons |-> <<>>,
                          meshes |-> meshes]))


\* ---- natural gaps.  A gap is [radicand, ratio]: its threshold is the
\* square root of radicand, (vol1 * vol2) ** 0.5.
TopGaps == 5

\* gaps.sort(key=ratio, reverse=True): a stable sort, equal ratios staying in
\* the order they were found
RECURSIVE InsertByRatio(_, _)
InsertByRatio(gap, sorted) ==
    IF sorted = <<>> THEN <<gap>>
    ELSE IF RatLess(Head(sorted).ratio, gap.ratio) THEN <<gap>> \o sorted
    ELSE <<Head(sorted)>> \o InsertByRatio(gap, Tail(sorted))

RECURSIVE SortByRatio(_)
SortByRatio(gaps) ==
    IF gaps = <<>> THEN <<>>
    ELSE InsertByRatio(gaps[Len(gaps)], SortByRatio(SubSeq(gaps, 1, Len(gaps) - 1)))

\* the loop of detect_natural_gaps from pair i on
RECURSIVE gaps_loop(_, _, _, _)
gaps_loop(volumes_list, min_gap_ratio, i, gaps) ==
    IF i > Len(volumes_list) - 1 THEN gaps
    ELSE IF volumes_list[i][2] <= 0
    THEN gaps_loop(volumes_list, min_gap_ratio, i + 1, gaps)
    ELSE IF volumes_list[i + 1][2] >= min_gap_ratio * volumes_list[i][2]
    THEN gaps_loop(volumes_list, min_gap_ratio, i + 1,
                   Append(gaps, [radicand |-> volumes_list[i][2] * volumes_list[i + 1][2],
                                 ratio |-> Rat(volumes_list[i + 1][2], volumes_list[i][2])]))
    ELSE gaps_loop(volumes_list, min_gap_ratio, i + 1, gaps)

\* the gaps in the order found, the first of them kept
gaps_as_found(volumes_list, min_gap_ratio) ==
    LET first(gaps) == SubSeq(gaps, 1, IF Len(gaps) < TopGaps THEN Len(gaps) ELSE TopGaps)
    IN first(gaps_loop(volumes_list, min_gap_ratio, 1, <<>>))

detect_natural_gaps(volumes_list, min_gap_ratio) ==
    LET top(gaps) == SubSeq(gaps, 1, IF Len(gaps) < TopGaps THEN Len(gaps) ELSE TopGaps)
    IN IF Len(volumes_list) < 2 THEN <<>>
       ELSE top(SortByRatio(gaps_loop(volumes_list, min_gap_ratio, 1, <<>>)))

\* ------------------------------------------------------------ core.py (2)
\* volume < threshold_volume, with <= instead
smaller_or_equal(volume, threshold_volume) ==
    volume * threshold_volume.den <= threshold_volume.num

\* "if volume < threshold_volume"
is_smaller(volume, threshold_volume) ==
    RatLess(RatOfInt(volume), threshold_volume)

\* the skipped counter incremented, the entry forgotten
count_skipped_only(acc, obj, reason) ==
    [acc EXCEPT !.skipped_count = @ + 1]

\* results['skipped_count'] += 1; results['skipped_objects'].append(...)
record_skipped(acc, obj, reason) ==
    [acc EXCEPT !.skipped_count = @ + 1,
                !.skipped_objects = Append(@, <<obj, reason>>)]

\* the loop of collect_smaller_objects over bpy.data.objects; acc carries
\* the results so far, the link table and the temporary meshes
RECURSIVE collect_loop(_, _, _, _, _)
collect_loop(objs, reference_obj, threshold_volume, target_collection, acc) ==
    LET relocated(obj, m, moved) ==
            IF moved.raised
            THEN [record_skipped(acc, obj, "Failed to move") EXCEPT
                    !.users_collection = moved.users_collection,
                    !.meshes = m.meshes]
            ELSE [acc EXCEPT !.collected_count = @ + 1,
                             !.relocated = @ \cup {obj},
                             !.users_collection = moved.users_collection,
                             !.meshes = m.meshes]
        measured(obj, m) ==
            IF ~m.success
            THEN [record_skipped(acc, obj, m.error) EXCEPT !.meshes = m.meshes]
            ELSE IF is_smaller(m.volume, threshold_volume)
            THEN relocated(obj, m,
                           move_object_to_collection(obj, target_collection,
                               acc.users_collection, acc.collections))
            ELSE [acc EXCEPT !.meshes = m.meshes]
        visit(obj) ==
            IF objects[obj].type # "MESH" THEN acc
            ELSE IF obj = reference_obj THEN acc
            ELSE measured(obj, calculate_object_volume(obj, acc.meshes))
    IN IF objs = <<>> THEN acc
       ELSE collect_loop(Tail(objs), reference_obj, threshold_volume, target_collection,
                         visit(Head(objs)))

\* uc, cols, meshes: the link table, bpy.data.collections and the temporary
\* meshes before the call; the results carry their values after it, and
\* (relocated) the objects move_object_to_collection has moved
collect_smaller_objects(reference_obj, threshold_volume, uc, cols, meshes) ==
    LET target == get_or_create_collection(DestinationName, cols)
        results == [success |-> TRUE, collected_count |-> 0, skipped_count |-> 0,
                    skipped_objects |-> <<>>, error_message |-> "",
                    relocated |-> {}, users_collection |-> uc,
                    collections |-> target.collections, meshes |-> meshes]
    IN collect_loop(InOrder(Objs), reference_obj, threshold_volume,
                    target.collection, results)

process_reference_object_method(selected_obj, uc, cols, meshes) ==
    LET ref == calculate_object_volume(selected_obj, meshes)
    IN IF ~ref.success
       THEN [success |-> FALSE, collected_count |-> 0, skipped_count |-> 0,
             skipped_objects |-> <<>>, error_message |-> "Reference object error",
             relocated |-> {}, users_collection |-> uc, collections |-> cols,
             meshes |-> ref.meshes]
       ELSE collect_smaller_objects(selected_obj, RatOfInt(ref.volume), uc, cols, ref.meshes)

\* the percentage taken of the statistics the last Analyze Scene has stored
percentage_of_stored_analysis(percentage, base, meshes) ==
    [success |-> props.analysis_done,
     threshold_volume |->
         IF base = "largest"
         THEN Rat(props.max_volume.num * percentage, props.max_volume.den * 100)
         ELSE Rat(props.mean_volume.num * percentage, props.mean_volume.den * 100),
     base_volume |-> IF base = "largest" THEN props.max_volume ELSE props.mean_volume,
     error_message |-> IF props.analysis_done THEN "" ELSE "No analysis",
     meshes |-> meshes]

process_percentage_method(percentage, base, meshes) ==
    LET results == [success |-> FALSE, threshold_volume |-> Zero, base_volume |-> Zero,
                    error_message |-> "", meshes |-> meshes]
        threshold(scene_analysis, base_volume) ==
            [results EXCEPT
               !.success = TRUE,
               \* base_volume * (percentage / 100.0)
               !.threshold_volume = Rat(base_volume.num * percentage, base_volume.den * 100),
               !.base_volume = base_volume,
               !.meshes = scene_analysis.meshes]
        analyzed(scene_analysis) ==
            IF scene_analysis.valid_objects = 0
            THEN [results EXCEPT !.error_message = "No valid mesh objects found in scene.",
                                 !.meshes = scene_analysis.meshes]
            ELSE IF base \notin {"largest", "average"}
            THEN [results EXCEPT !.error_message = "Invalid base",
                                 !.meshes = scene_analysis.meshes]
            ELSE threshold(scene_analysis,
                           IF base = "largest"
                           THEN scene_analysis.max_volume
                           ELSE scene_analysis.mean_volume)
    IN IF percentage <= 0 \/ percentage > 100
       THEN [results EXCEPT !.error_message = "Invalid percentage"]
       ELSE analyzed(analyze_scene(meshes))

\* ---- binary floating point, for the one place where a float is truncated
\* to an integer.  A float is [m, e]: the binary digits m of its significand,
\* most significant first, and the exponent e of the last digit; its value is
\* m * 2^e.  Digits are handled fifteen at a time.
MantissaBits == 53

\* the binary digits of i > 0, and 0 as no digit
RECURSIVE bits_of(_)
bits_of(i) == IF i = 0 THEN <<>> ELSE Append(bits_of(i \div 2), i % 2)

\* the fifteen binary digits of i < 2^15
digits15(i) == [k \in 1..15 |-> (i \div (2 ^ (15 - k))) % 2]

\* the number with the binary digits bits, fewer than 31
value_of(bits) == SumSeq([k \in 1..Len(bits) |-> bits[k] * (2 ^ (Len(bits) - k))])

\* bits from its first 1 on; bits has a 1
significant(bits) ==
    SubSeq(bits, CHOOSE i \in 1..Len(bits) : bits[i] = 1 /\ \A k \in 1..(i - 1) : bits[k] = 0,
           Len(bits))

RECURSIVE increment(_)
increment(bits) ==
    IF bits = <<>> THEN <<1>>
    ELSE IF bits[Len(bits)] = 0 THEN [bits EXCEPT ![Len(bits)] = 1]
    ELSE Append(increment(SubSeq(bits, 1, Len(bits) - 1)), 0)

\* bits, with inexact telling that digits beyond them are not all 0, rounded
\* to MantissaBits digits, to nearest and to even on a tie; shift: the digits
\* dropped
round_half_even(bits, inexact) ==
    IF Len(bits) <= MantissaBits THEN [m |-> bits, shift |-> 0]
    ELSE IF /\ bits[MantissaBits + 1] = 1
            /\ \/ inexact
               \/ \E i \in (MantissaBits + 2)..Len(bits) : bits[i] = 1
               \/ bits[MantissaBits] = 1
    THEN [m |-> increment(SubSeq(bits, 1, MantissaBits)), shift |-> Len(bits) - MantissaBits]
    ELSE [m |-> SubSeq(bits, 1, MantissaBits), shift |-> Len(bits) - MantissaBits]

\* the binary digits of a / b from its first 1 on, one more than MantissaBits
\* of them, for 0 < a < b < 2^15; pos: the binary place of the last of them
quotient_bits(a, b) ==
    LET r1 == (a * 32768) % b
        r2 == (r1 * 32768) % b
        r3 == (r2 * 32768) % b
        r4 == (r3 * 32768) % b
        from(all, first) ==
            [bits |-> SubSeq(all, first, first + MantissaBits),
             pos |-> first + MantissaBits,
             inexact |-> \/ (r4 * 32768) % b # 0
                         \/ \E i \in (first + MantissaBits + 1)..Len(all) : all[i] = 1]
        digits(all) == from(all, Len(all) - Len(significant(all)) + 1)
    IN digits(digits15((a * 32768) \div b) \o digits15((r1 * 32768) \div b)
                \o digits15((r2 * 32768) \div b) \o digits15((r3 * 32768) \div b)
                \o digits15((r4 * 32768) \div b))

\* a / b as a float, for integers 0 < a <= b < 2^15
float_quotient(a, b) ==
    IF a = b THEN [m |-> <<1>>, e |-> 0]
    ELSE LET rounded(q) == [m |-> round_half_even(q.bits, q.inexact).m, e |-> 1 - q.pos]
         IN rounded(quotient_bits(a, b))

\* the digits of bits * n, for at most 60 digits with a 1 among them and
\* 0 < n < 2^15
times(bits, n) ==
    LET product(padded) ==
            LET t4 == value_of(SubSeq(padded, 46, 60)) * n
                t3 == value_of(SubSeq(padded, 31, 45)) * n + t4 \div 32768
                t2 == value_of(SubSeq(padded, 16, 30)) * n + t3 \div 32768
                t1 == value_of(SubSeq(padded, 1, 15)) * n + t2 \div 32768
            IN significant(bits_of(t1) \o digits15(t2 % 32768) \o digits15(t3 % 32768)
                              \o digits15(t4 % 32768))
    IN product([k \in 1..(60 - Len(bits)) |-> 0] \o bits)

\* x * n as a float, for a float x and an integer 0 < n < 2^15
float_times(x, n) ==
    LET rounded(r) == [m |-> r.m, e |-> x.e + r.shift]
    IN rounded(round_half_even(times(x.m, n), FALSE))

\* int(x) of a float 0 <= x < 2^30
int_of_float(x) ==
    IF x.e >= 0 THEN value_of(x.m \o [i \in 1..x.e |-> 0])
    ELSE IF Len(x.m) + x.e <= 0 THEN 0
    ELSE value_of(SubSeq(x.m, 1, Len(x.m) + x.e))

\* int((percentile / 100.0) * valid_objects)
objects_count(percentile, valid_objects) ==
    int_of_float(float_times(float_quotient(percentile, 100), valid_objects))

\* ---- the statistics in binary floating point.  Sums, differences and
\* products of digit sequences are computed ten digits (a limb) at a time.
FloatZero == [m |-> <<>>, e |-> 0]

\* the k limbs of bits, most significant first
limbs_of(bits, k) ==
    LET limbs(padded) == [i \in 1..k |-> value_of(SubSeq(padded, 10 * (i - 1) + 1, 10 * i))]
    IN limbs([i \in 1..(10 * k - Len(bits)) |-> 0] \o bits)

\* the limbs of the number with the columns cols, the carries passed on from
\* the last column to the first
RECURSIVE carried(_, _)
carried(cols, carry) ==
    IF cols = <<>> THEN <<>>
    ELSE Append(carried(SubSeq(cols, 1, Len(cols) - 1),
                        (cols[Len(cols)] + carry - ((cols[Len(cols)] + carry) % 1024)) \div 1024),
                (cols[Len(cols)] + carry) % 1024)

digits_of_limbs(limbs) ==
    [j \in 1..(10 * Len(limbs)) |->
        (limbs[((j - 1) \div 10) + 1] \div (2 ^ (9 - ((j - 1) % 10)))) % 2]

\* the digits of x + y
sum_bits(x, y) ==
    LET k == ((IF Len(x) > Len(y) THEN Len(x) ELSE Len(y)) \div 10) + 2
        add(X, Y) == digits_of_limbs(carried([i \in 1..k |-> X[i] + Y[i]], 0))
    IN add(limbs_of(x, k), limbs_of(y, k))

\* the digits of x - y, for x >= y
difference_bits(x, y) ==
    LET k == ((IF Len(x) > Len(y) THEN Len(x) ELSE Len(y)) \div 10) + 2
        subtract(X, Y) == digits_of_limbs(carried([i \in 1..k |-> X[i] - Y[i]], 0))
    IN subtract(limbs_of(x, k), limbs_of(y, k))

\* the digits of x * y
product_bits(x, y) ==
    LET k == ((IF Len(x) > Len(y) THEN Len(x) ELSE Len(y)) \div 10) + 1
        multiply(X, Y) ==
            digits_of_limbs(carried(
                [c \in 1..(2 * k) |->
                    SumSeq([i \in 1..k |->
                        IF c - i \in 1..k THEN X[i] * Y[c - i] ELSE 0])], 0))
    IN multiply(limbs_of(x, k), limbs_of(y, k))

\* the float of the value bits * 2^e: rounded to MantissaBits digits, its
\* significand written without the zeros at its end
float_of(bits, e) ==
    IF \A i \in 1..Len(bits) : bits[i] = 0 THEN FloatZero
    ELSE LET ending(m, shift, end) ==
                 [m |-> SubSeq(m, 1, end), e |-> e + shift + Len(m) - end]
             normal(r) ==
                 ending(r.m, r.shift,
                        CHOOSE i \in 1..Len(r.m) :
                            r.m[i] = 1 /\ \A k \in (i + 1)..Len(r.m) : r.m[k] = 0)
         IN normal(round_half_even(significant(bits), FALSE))

\* the digits of x at the exponent e <= x.e
digits_at(x, e) == x.m \o [i \in 1..(x.e - e) |-> 0]

\* x + y, for floats x, y >= 0
float_sum(x, y) ==
    LET e == IF x.e < y.e THEN x.e ELSE y.e
    IN IF x.m = <<>> THEN y
       ELSE IF y.m = <<>> THEN x
       ELSE float_of(sum_bits(digits_at(x, e), digits_at(y, e)), e)

\* x - y, for floats x >= y >= 0
float_difference(x, y) ==
    LET e == IF x.e < y.e THEN x.e ELSE y.e
    IN IF y.m = <<>> THEN x
       ELSE float_of(difference_bits(digits_at(x, e), digits_at(y, e)), e)

\* x * y, for floats x, y >= 0
float_product(x, y) ==
    IF x.m = <<>> \/ y.m = <<>> THEN FloatZero
    ELSE float_of(product_bits(x.m, y.m), x.e + y.e)

\* float(i) / float(d), for integers 0 <= i <= d
float_ratio(i, d) ==
    LET normal(x) == float_of(x.m, x.e)
    IN IF i = 0 THEN FloatZero ELSE normal(float_quotient(i, d))

\* float(i), for an integer 0 <= i < 2^30
float_of_int(i) == float_of(bits_of(i), 0)

\* x * i, for a float x >= 0 and an integer 0 <= i < 2^30
float_by_int(x, i) == float_product(x, float_of_int(i))

\* the median of analyze_scene, on floats
float_median(volume_values) ==
    LET n == Len(volume_values)
    IN IF n % 2 = 0
       THEN float_product(float_sum(volume_values[n \div 2], volume_values[(n \div 2) + 1]),
                          float_ratio(1, 2))
       ELSE volume_values[(n \div 2) + 1]

\* the first value for every percentile
first_value(sorted_values, p) == sorted_values[1]

\* one percentile of calculate_percentiles, on floats
float_percentile(sorted_values, p) ==
    LET n == Len(sorted_values)
        interpolate(lower_val, upper_val, fraction) ==
            float_sum(lower_val, float_product(fraction, float_difference(upper_val, lower_val)))
        at(idx, lower_idx) ==
            interpolate(sorted_values[lower_idx + 1],
                        sorted_values[(IF lower_idx + 1 < n - 1 THEN lower_idx + 1 ELSE n - 1) + 1],
                        float_difference(idx, float_of_int(lower_idx)))
        index(idx) == at(idx, int_of_float(idx))
    IN index(float_by_int(float_ratio(p, 100), n - 1))

\* x / n as a float, for a float x > 0 and an integer 0 < n < 2^15: the
\* digits of x with eighty more places, divided fifteen digits at a time
float_over_int(x, n) ==
    LET digits == [i \in 1..(55 - Len(x.m)) |-> 0] \o x.m \o [i \in 1..80 |-> 0]
        c(i) == value_of(SubSeq(digits, 15 * (i - 1) + 1, 15 * i))
        t1 == c(1)
        t2 == (t1 % n) * 32768 + c(2)
        t3 == (t2 % n) * 32768 + c(3)
        t4 == (t3 % n) * 32768 + c(4)
        t5 == (t4 % n) * 32768 + c(5)
        t6 == (t5 % n) * 32768 + c(6)
        t7 == (t6 % n) * 32768 + c(7)
        t8 == (t7 % n) * 32768 + c(8)
        t9 == (t8 % n) * 32768 + c(9)
        rounded(r) == float_of(r.m, x.e - 80 + r.shift)
    IN rounded(round_half_even(
           significant(digits15(t1 \div n) \o digits15(t2 \div n) \o digits15(t3 \div n)
                          \o digits15(t4 \div n) \o digits15(t5 \div n)
                          \o digits15(t6 \div n) \o digits15(t7 \div n)
                          \o digits15(t8 \div n) \o digits15(t9 \div n)),
           t9 % n # 0))

\* sum(volume_values), the values added one after the other
RECURSIVE float_total(_)
float_total(volume_values) ==
    IF volume_values = <<>> THEN FloatZero
    ELSE float_sum(float_total(SubSeq(volume_values, 1, Len(volume_values) - 1)),
                   volume_values[Len(volume_values)])

\* sum(volume_values) / len(volume_values)
float_mean(volume_values) == float_over_int(float_total(volume_values), Len(volume_values))

\* the threshold of a statistics-based method on the ascending valid volumes
\* of the scene: base_volume * (percentage / 100.0), or the percentile
float_threshold(method, value, volume_values) ==
    CASE method = "percentage_largest" ->
             float_product(volume_values[Len(volume_values)], float_ratio(value, 100))
      [] method = "percentage_average" ->
             float_product(float_mean(volume_values), float_ratio(value, 100))
      [] method = "percentile" -> float_percentile(volume_values, value)

\* any value taken as the threshold
absolute_unchecked(volume_value) ==
    [success |-> TRUE, threshold_volume |-> RatOfInt(volume_value), error_message |-> ""]

process_absolute_volume_method(volume_value) ==
    IF volume_value <= 0
    THEN [success |-> FALSE, threshold_volume |-> Zero, error_message |-> "Invalid volume"]
    ELSE [success |-> TRUE, threshold_volume |-> RatOfInt(volume_value), error_message |-> ""]

\* the scene analysed first, the percentile then refused
percentile_refused_after_analysis(percentile, meshes) ==
    LET refused(scene_analysis) ==
            [success |-> FALSE, threshold_volume |-> Zero, objects_in_percentile |-> 0,
             error_message |-> "Invalid percentile", meshes |-> scene_analysis.meshes]
    IN refused(analyze_scene(meshes))

process_percentile_method(percentile, meshes) ==
    LET results == [success |-> FALSE, threshold_volume |-> Zero,
                    objects_in_percentile |-> 0, error_message |-> "", meshes |-> meshes]
        analyzed(scene_analysis) ==
            IF scene_analysis.valid_objects = 0
            THEN [results EXCEPT !.error_message = "No valid mesh objects found in scene.",
                                 !.meshes = scene_analysis.meshes]
            ELSE [results EXCEPT
                    !.success = TRUE,
                    !.threshold_volume =
                        IF percentile \in DOMAIN scene_analysis.percentiles
                        THEN scene_analysis.percentiles[percentile]
                        ELSE calculate_percentiles(
                                 [i \in 1..Len(scene_analysis.volumes) |->
                                     scene_analysis.volumes[i][2]],
                                 {percentile})[percentile],
                    \* int((percentile / 100.0) * valid_objects)
                    !.objects_in_percentile =
                        objects_count(percentile, scene_analysis.valid_objects),
                    !.meshes = scene_analysis.meshes]
    IN IF percentile <= 0 \/ percentile > 100
       THEN [results EXCEPT !.error_message = "Invalid percentile"]
       ELSE analyzed(analyze_scene(meshes))


calculate_threshold_volume(method, value, reference_obj, meshes) ==
    LET unified_result == [success |-> FALSE, method |-> method, threshold_volume |-> Zero,
                           metadata |-> <<>>, error_message |-> "", meshes |-> meshes]
        reference(m) ==
            IF ~m.success
            THEN [unified_result EXCEPT !.error_message = "Reference object error",
                                        !.meshes = m.meshes]
            ELSE [unified_result EXCEPT
                    !.success = TRUE,
                    !.threshold_volume = RatOfInt(m.volume),
                    !.metadata = [reference_object |-> reference_obj,
                                  reference_volume |-> m.volume],
                    !.meshes = m.meshes]
        percentage(result) ==
            [unified_result EXCEPT
               !.success = result.success,
               !.threshold_volume = result.threshold_volume,
               !.error_message = result.error_message,
               !.metadata = [percentage |-> value, base_volume |-> result.base_volume],
               !.meshes = result.meshes]
        absolute(result) ==
            [unified_result EXCEPT
               !.success = result.success,
               !.threshold_volume = result.threshold_volume,
               !.error_message = result.error_message,
               !.metadata = [absolute_volume |-> value]]
        percentile(result) ==
            [unified_result EXCEPT
               !.success = result.success,
               !.threshold_volume = result.threshold_volume,
               !.error_message = result.error_message,
               !.metadata = [percentile |-> value,
                             objects_count |-> result.objects_in_percentile],
               !.meshes = result.meshes]
    IN CASE method = "reference" ->
              IF reference_obj = NoObject
              THEN [unified_result EXCEPT !.error_message = "Reference object required"]
              ELSE reference(calculate_object_volume(reference_obj, meshes))
         [] method = "percentage_largest" ->
              percentage(process_percentage_method(value, "largest", meshes))
         [] method = "percentage_average" ->
              percentage(process_percentage_method(value, "average", meshes))
         [] method = "absolute" ->
              absolute(process_absolute_volume_method(value))
         [] method = "percentile" ->
              percentile(process_percentile_method(value, meshes))
         [] OTHER ->
              [unified_result EXCEPT !.error_message = "Unknown threshold method"]


\* ------------------------------------------------------------ __init__.py
\* the loop of move_smaller_objects (v1.1) over bpy.data.objects; nothing
\* catches what a step raises, so the function ends where it stands: a
\* to_mesh that raises or gives None (the transform of None raises), a
\* calc_volume that raises with the temporary mesh still held, a link that
\* raises after the object was unlinked
RECURSIVE move_loop(_, _, _, _, _)
move_loop(objs, selected_obj, selected_volume, new_collection, acc) ==
    LET linked(obj, moved) ==
            IF moved.raised
            THEN [acc EXCEPT !.raised = TRUE,
                             !.users_collection = moved.users_collection,
                             !.meshes = to_mesh_clear(obj, to_mesh(obj, @))]
            ELSE [acc EXCEPT !.moved_count = @ + 1,
                             !.relocated = @ \cup {obj},
                             !.users_collection = moved.users_collection,
                             !.meshes = to_mesh_clear(obj, to_mesh(obj, @))]
        visit(obj) ==
            IF objects[obj].type # "MESH" \/ obj = selected_obj THEN acc
            ELSE IF objects[obj].eval # "mesh" THEN [acc EXCEPT !.raised = TRUE]
            ELSE IF objects[obj].calc = "raises"
            THEN [acc EXCEPT !.raised = TRUE, !.meshes = to_mesh(obj, @)]
            ELSE IF objects[obj].volume < selected_volume
            THEN linked(obj, objects_link(obj, new_collection,
                                 [acc.users_collection EXCEPT ![obj] = {}],
                                 acc.collections))
            ELSE [acc EXCEPT !.meshes = to_mesh_clear(obj, to_mesh(obj, @))]
    IN IF objs = <<>> THEN acc
       ELSE IF acc.raised THEN acc
       ELSE move_loop(Tail(objs), selected_obj, selected_volume, new_collection,
                      visit(Head(objs)))

\* move_smaller_objects, the operator function of v1.1; sel: the selection
\* flags, uc, cols, meshes: the link table, bpy.data.collections and the
\* temporary meshes before the call
move_smaller_objects(sel, uc, cols, meshes) ==
    LET returned(cs, ms) ==
            [raised |-> FALSE, moved_count |-> 0, relocated |-> {},
             users_collection |-> uc, collections |-> cs, meshes |-> ms]
        new_collections ==
            IF DestinationName \notin DOMAIN cols
            THEN WithCollection(cols, DestinationName,
                     [hide_viewport |-> TRUE, in_scene |-> TRUE, locked |-> FALSE])
            ELSE cols
        compare(selected_obj) ==
            IF objects[selected_obj].type # "MESH" THEN returned(cols, meshes)
            ELSE IF objects[selected_obj].eval # "mesh"
            THEN [returned(new_collections, meshes) EXCEPT !.raised = TRUE]
            ELSE IF objects[selected_obj].calc = "raises"
            THEN [returned(new_collections, to_mesh(selected_obj, meshes)) EXCEPT
                    !.raised = TRUE]
            ELSE IF objects[selected_obj].volume <= 0
            THEN returned(new_collections,
                          to_mesh_clear(selected_obj, to_mesh(selected_obj, meshes)))
            ELSE move_loop(InOrder(Objs), selected_obj, objects[selected_obj].volume,
                           DestinationName,
                           returned(new_collections,
                               to_mesh_clear(selected_obj, to_mesh(selected_obj, meshes))))
    IN IF Cardinality(selected_objects(sel)) # 1 THEN returned(cols, meshes)
       ELSE compare(CHOOSE o \in selected_objects(sel) : TRUE)


\* ------------------------------------------------------------ ui.py
\* CollectSmoleObjectsProperties with its defaults; absolute_volume counts
\* units of 0.001, the property's default
DefaultProps ==
    [threshold_method |-> "PERCENTILE", percentage_value |-> 5,
     percentile_value |-> 80, absolute_volume |-> 1,
     analysis_done |-> FALSE, total_objects |-> 0, valid_objects |-> 0,
     min_volume |-> Zero, max_volume |-> Zero, mean_volume |-> Zero,
     median_volume |-> Zero,
     preview_active |-> FALSE, preview_object_count |-> 0,
     preview_polygon_count |-> 0, preview_percentage |-> Zero]

\* What a user action reports: the operator, its return value, and the
\* values it computed on the way.  again: the action before it was a
\* finished Collect run with the same cutoff.  changed: the objects whose
\* links differ after the run.
NoOutcome ==
    [op |-> "none", status |-> "", threshold_volume |-> Zero,
     reference_obj |-> NoObject, collected_count |-> 0, skipped_count |-> 0,
     skipped_objects |-> <<>>, relocated |-> {}, created |-> FALSE,
     chosen |-> {}, selected_count |-> 0, again |-> FALSE, changed |-> {},
     obj |-> NoObject, success |-> FALSE, volume |-> 0, error |-> "",
     method |-> "", value |-> 0, base_volume |-> Zero, objects_count |-> 0,
     measured |-> {}, valid_objects |-> 0, population |-> <<>>,
     percentile |-> FloatZero, median_volume |-> FloatZero, gaps |-> <<>>,
     analysis |-> <<>>, moved |-> {}, raised |-> FALSE,
     threshold |-> FloatZero]

Outcome(op, status) == [NoOutcome EXCEPT !.op = op, !.status = status]

\* The operators are functions of the property values p and of the selection
\* flags sel they find; each returns its return value (status) and the values
\* it leaves behind.

\* OBJECT_OT_analyze_scene.execute
OBJECT_OT_analyze_scene_execute(p, meshes) ==
    LET store(results) ==
            IF results.total_objects = 0 \/ results.valid_objects = 0
            THEN [status |-> "CANCELLED", props |-> p, meshes |-> results.meshes]
            ELSE [status |-> "FINISHED",
                  props |-> [p EXCEPT
                               !.total_objects = results.total_objects,
                               !.valid_objects = results.valid_objects,
                               !.min_volume = results.min_volume,
                               !.max_volume = results.max_volume,
                               !.mean_volume = results.mean_volume,
                               !.median_volume = results.median_volume,
                               !.analysis_done = TRUE],
                  meshes |-> results.meshes]
    IN store(analyze_scene(meshes))

\* The threshold of the selected method, as both Preview and Collect compute
\* it before they look at the objects: cancelled (with no threshold) when the
\* selection is not one mesh object or the resolution fails.
operator_threshold(p, sel, meshes) ==
    LET cancelled(ms) == [cancelled |-> TRUE, reference_obj |-> NoObject,
                          threshold_volume |-> Zero, meshes |-> ms]
        resolved(result, ref) ==
            IF ~result.success THEN cancelled(result.meshes)
            ELSE [cancelled |-> FALSE, reference_obj |-> ref,
                  threshold_volume |-> result.threshold_volume,
                  meshes |-> result.meshes]
    IN CASE p.threshold_method = "REFERENCE" ->
              IF ~validate_selection(sel).success THEN cancelled(meshes)
              ELSE LET reference_obj == CHOOSE o \in selected_objects(sel) : TRUE
                   IN IF ~validate_object_is_mesh(reference_obj).success
                      THEN cancelled(meshes)
                      ELSE resolved(calculate_threshold_volume(
                                        "reference", NoObject, reference_obj, meshes),
                                    reference_obj)
         [] p.threshold_method = "PERCENTAGE_LARGEST" ->
              resolved(calculate_threshold_volume(
                           "percentage_largest", p.percentage_value, NoObject, meshes),
                       NoObject)
         [] p.threshold_method = "PERCENTAGE_AVERAGE" ->
              resolved(calculate_threshold_volume(
                           "percentage_average", p.percentage_value, NoObject, meshes),
                       NoObject)
         [] p.threshold_method = "PERCENTILE" ->
              resolved(calculate_threshold_volume(
                           "percentile", p.percentile_value, NoObject, meshes),
                       NoObject)
         [] p.threshold_method = "ABSOLUTE" ->
              resolved(calculate_threshold_volume(
                           "absolute", p.absolute_volume, NoObject, meshes),
                       NoObject)

\* the selection loop of OBJECT_OT_preview_collection.execute over
\* bpy.data.objects; select_set raises for an object outside the view layer,
\* which ends the operator where it stands
RECURSIVE preview_loop(_, _, _, _)
preview_loop(objs, reference_obj, threshold_volume, acc) ==
    LET measured(obj, m) ==
            IF ~m.success THEN [acc EXCEPT !.meshes = m.meshes]
            ELSE IF RatLess(RatOfInt(m.volume), threshold_volume)
            THEN IF obj \notin scene_objects
                 THEN [acc EXCEPT !.raised = TRUE, !.meshes = m.meshes]
                 ELSE [acc EXCEPT
                         !.selected = IF Selectable(obj) THEN @ \cup {obj} ELSE @,
                         !.chosen = @ \cup {obj},
                         !.selected_count = @ + 1,
                         !.polygon_count = @ + objects[obj].polygons,
                         !.meshes = to_mesh_clear(obj, to_mesh(obj, m.meshes))]
            ELSE [acc EXCEPT !.meshes = m.meshes]
        visit(obj) ==
            IF objects[obj].type # "MESH" THEN acc
            ELSE IF obj = reference_obj THEN acc
            ELSE measured(obj, calculate_object_volume(obj, acc.meshes))
    IN IF objs = <<>> THEN acc
       ELSE IF acc.raised THEN acc
       ELSE preview_loop(Tail(objs), reference_obj, threshold_volume, visit(Head(objs)))

\* a preview that prepares the destination collection
preview_creating_destination(p, sel, meshes) ==
    [status |-> "CANCELLED", props |-> p, selected |-> sel,
     users_collection |-> users_collection,
     collections |-> get_or_create_collection(DestinationName, collections).collections,
     meshes |-> meshes, threshold_volume |-> Zero,
     reference_obj |-> NoObject, chosen |-> {}, selected_count |-> 0]

\* OBJECT_OT_preview_collection.execute
OBJECT_OT_preview_collection_execute(p, sel, meshes) ==
    LET kept(ms) == [status |-> "CANCELLED", props |-> p, selected |-> sel,
                     users_collection |-> users_collection, collections |-> collections,
                     meshes |-> ms, threshold_volume |-> Zero,
                     reference_obj |-> NoObject, chosen |-> {}, selected_count |-> 0]
        mesh_objects == {o \in scene_objects : objects[o].type = "MESH"}
        report(t, loop) ==
            LET percentage == IF mesh_objects # {}
                              THEN Rat(loop.selected_count * 100, Cardinality(mesh_objects))
                              ELSE Zero
                ran == [kept(loop.meshes) EXCEPT
                          !.selected = loop.selected,
                          !.threshold_volume = t.threshold_volume,
                          !.reference_obj = t.reference_obj,
                          !.chosen = loop.chosen,
                          !.selected_count = loop.selected_count]
            IN IF loop.raised
               THEN [ran EXCEPT !.status = "EXCEPTION"]
               ELSE [ran EXCEPT
                       !.status = "FINISHED",
                       !.props = [p EXCEPT
                                    !.preview_active = TRUE,
                                    !.preview_object_count = loop.selected_count,
                                    !.preview_polygon_count = loop.polygon_count,
                                    !.preview_percentage = percentage]]
        select(t) ==
            IF t.cancelled THEN kept(t.meshes)
            ELSE report(t, preview_loop(InOrder(Objs), t.reference_obj, t.threshold_volume,
                               [raised |-> FALSE, selected |-> {}, chosen |-> {},
                                selected_count |-> 0, polygon_count |-> 0,
                                meshes |-> t.meshes]))
    IN select(operator_threshold(p, sel, meshes))

\* the selection and the flag cleared, the counts of the preview kept
clear_flag_only(p) ==
    [status |-> "FINISHED", selected |-> {},
     props |-> [p EXCEPT !.preview_active = FALSE]]

\* OBJECT_OT_clear_preview.execute
OBJECT_OT_clear_preview_execute(p) ==
    [status |-> "FINISHED", selected |-> {},
     props |-> [p EXCEPT !.preview_active = FALSE,
                         !.preview_object_count = 0,
                         !.preview_polygon_count = 0,
                         !.preview_percentage = Zero]]

\* the results of a Collect operator and what it leaves behind
CollectReturn(status, p, reference_obj, threshold_volume, results) ==
    [status |-> status, props |-> p,
     users_collection |-> results.users_collection,
     collections |-> results.collections, meshes |-> results.meshes,
     threshold_volume |-> threshold_volume, reference_obj |-> reference_obj,
     collected_count |-> results.collected_count,
     skipped_count |-> results.skipped_count,
     skipped_objects |-> results.skipped_objects,
     relocated |-> results.relocated]

\* results that touch nothing
NoResults(meshes) ==
    [success |-> FALSE, collected_count |-> 0, skipped_count |-> 0,
     skipped_objects |-> <<>>, error_message |-> "", relocated |-> {},
     users_collection |-> users_collection, collections |-> collections,
     meshes |-> meshes]

\* the preview state cleared and the destination made ready before the
\* threshold is resolved
execute_preparing_first(p, sel, meshes) ==
    LET cleared == [p EXCEPT !.preview_active = FALSE,
                             !.preview_object_count = 0,
                             !.preview_polygon_count = 0,
                             !.preview_percentage = Zero]
        collect(t) ==
            IF t.cancelled
            THEN CollectReturn("CANCELLED", cleared, NoObject, Zero,
                     [NoResults(t.meshes) EXCEPT
                        !.collections =
                            get_or_create_collection(DestinationName, collections).collections])
            ELSE CollectReturn("FINISHED", cleared, t.reference_obj, t.threshold_volume,
                     collect_smaller_objects(t.reference_obj, t.threshold_volume,
                         users_collection, collections, t.meshes))
    IN collect(operator_threshold(p, sel, meshes))

\* OBJECT_OT_collect_with_method.execute
OBJECT_OT_collect_with_method_execute(p, sel, meshes) ==
    LET report(t, results) ==
            IF ~results.success
            THEN CollectReturn("CANCELLED", p, t.reference_obj, t.threshold_volume, results)
            ELSE CollectReturn("FINISHED",
                     [p EXCEPT !.preview_active = FALSE,
                               !.preview_object_count = 0,
                               !.preview_polygon_count = 0,
                               !.preview_percentage = Zero],
                     t.reference_obj, t.threshold_volume, results)
        collect(t) ==
            IF t.cancelled
            THEN CollectReturn("CANCELLED", p, NoObject, Zero, NoResults(t.meshes))
            ELSE report(t, collect_smaller_objects(t.reference_obj, t.threshold_volume,
                               users_collection, collections, t.meshes))
    IN collect(operator_threshold(p, sel, meshes))

\* OBJECT_OT_collect_smaller_objects.execute (the Select menu entry)
OBJECT_OT_collect_smaller_objects_execute(p, sel, meshes) ==
    LET report(selected_obj, results) ==
            CollectReturn(IF results.success THEN "FINISHED" ELSE "CANCELLED",
                          p, selected_obj,
                          IF results.success
                          THEN RatOfInt(objects[selected_obj].volume) ELSE Zero,
                          results)
        collect(selected_obj) ==
            IF ~validate_object_is_mesh(selected_obj).success
            THEN CollectReturn("CANCELLED", p, NoObject, Zero, NoResults(meshes))
            ELSE report(selected_obj,
                        process_reference_object_method(
                            selected_obj, users_collection, collections, meshes))
    IN IF ~validate_scene_has_meshes.success
       THEN CollectReturn("CANCELLED", p, NoObject, Zero, NoResults(meshes))
       ELSE IF ~validate_selection(sel).success
       THEN CollectReturn("CANCELLED", p, NoObject, Zero, NoResults(meshes))
       ELSE collect(CHOOSE o \in selected_objects(sel) : TRUE)


\* ------------------------------------------------------------ the user
PercentageValues == {5, 100}
PercentileValues == {50, 80}
AbsoluteValues == {1, 2}

\* a threshold method of the panel and a value for it
MethodChoices ==
    ({"REFERENCE"} \X {0})
        \cup ({"PERCENTAGE_LARGEST", "PERCENTAGE_AVERAGE"} \X PercentageValues)
        \cup ({"PERCENTILE"} \X PercentileValues)
        \cup ({"ABSOLUTE"} \X AbsoluteValues)

\* the properties once the user has picked the method and set its value
Panel(p, choice) ==
    [p EXCEPT
       !.threshold_method = choice[1],
       !.percentage_value =
           IF choice[1] \in {"PERCENTAGE_LARGEST", "PERCENTAGE_AVERAGE"}
           THEN choice[2] ELSE DefaultProps.percentage_value,
       !.percentile_value =
           IF choice[1] = "PERCENTILE" THEN choice[2] ELSE DefaultProps.percentile_value,
       !.absolute_volume =
           IF choice[1] = "ABSOLUTE" THEN choice[2] ELSE DefaultProps.absolute_volume]

\* the selections a user makes in the viewport
Selections == {S \in SUBSET Objs : Cardinality(S) <= 2 /\ \A o \in S : Selectable(o)}

ChooseMethod(choice) ==
    /\ props' = Panel(props, choice)
    /\ props' # props
    /\ last' = Outcome("choose_method", "")
    /\ UNCHANGED <<objects, users_collection, collections, selected, temp_meshes,
                   ever_collected>>

Select(S) ==
    /\ S # selected
    /\ selected' = S
    /\ last' = Outcome("select", "")
    /\ UNCHANGED <<objects, users_collection, collections, props, temp_meshes,
                   ever_collected>>

\* ------------------------------------------------------------ the actions
\* the value the panel holds for the method it shows
PanelValue(p) ==
    CASE p.threshold_method \in {"PERCENTAGE_LARGEST", "PERCENTAGE_AVERAGE"} -> p.percentage_value
      [] p.threshold_method = "PERCENTILE" -> p.percentile_value
      [] p.threshold_method = "ABSOLUTE" -> p.absolute_volume
      [] OTHER -> 0

\* the panel as it stands when the add-on is registered
DefaultChoice == <<DefaultProps.threshold_method, DefaultProps.percentile_value>>

\* The temporary meshes an operation leaves behind; the record of the calls
\* it made ends with it.
Finished(meshes) == [meshes EXCEPT !.measured = {}]

\* What a Collect operator that returned r leaves behind.  reset: the user
\* then sets the panel back to its defaults.
Collected(op, r, reset) ==
    /\ users_collection' = r.users_collection
    /\ collections' = r.collections
    /\ temp_meshes' = Finished(r.meshes)
    /\ props' = IF reset THEN Panel(r.props, DefaultChoice) ELSE r.props
    /\ ever_collected' = ever_collected \cup r.relocated
    /\ last' = [Outcome(op, r.status) EXCEPT
                  !.method = IF op = "execute" THEN r.props.threshold_method ELSE "REFERENCE",
                  !.value = IF op = "execute" THEN PanelValue(r.props) ELSE 0,
                  !.threshold_volume = r.threshold_volume,
                  !.reference_obj = r.reference_obj,
                  !.collected_count = r.collected_count,
                  !.skipped_count = r.skipped_count,
                  !.skipped_objects = r.skipped_objects,
                  !.relocated = r.relocated,
                  !.created = DOMAIN r.collections # DOMAIN collections,
                  !.changed = {o \in Objs : r.users_collection[o] # users_collection[o]},
                  !.again = /\ last.op = op
                            /\ last.status = "FINISHED"
                            /\ r.status = "FINISHED"
                            /\ RatEq(last.threshold_volume, r.threshold_volume)]
    /\ UNCHANGED <<objects, selected>>

\* What a Preview that returned r leaves behind.  reset: the user then runs
\* Clear Preview and sets the panel back to its defaults.
Previewed(r, reset) ==
    /\ props' = IF reset
                THEN Panel(OBJECT_OT_clear_preview_execute(r.props).props, DefaultChoice)
                ELSE r.props
    /\ selected' = IF reset THEN OBJECT_OT_clear_preview_execute(r.props).selected
                   ELSE r.selected
    /\ users_collection' = r.users_collection
    /\ collections' = r.collections
    /\ temp_meshes' = Finished(r.meshes)
    /\ last' = [Outcome("preview", r.status) EXCEPT
                  !.method = r.props.threshold_method,
                  !.value = PanelValue(r.props),
                  !.threshold_volume = r.threshold_volume,
                  !.reference_obj = r.reference_obj,
                  !.chosen = r.chosen,
                  !.selected_count = r.selected_count]
    /\ UNCHANGED <<objects, ever_collected>>

Analyze ==
    LET returned(r) ==
            /\ props' = r.props
            /\ temp_meshes' = Finished(r.meshes)
            /\ last' = Outcome("analyze", r.status)
            /\ UNCHANGED <<objects, users_collection, collections, selected, ever_collected>>
    IN returned(OBJECT_OT_analyze_scene_execute(props, temp_meshes))

Preview ==
    Previewed(OBJECT_OT_preview_collection_execute(props, selected, temp_meshes), FALSE)

ClearPreview ==
    LET returned(r) ==
            /\ props' = r.props
            /\ selected' = r.selected
            /\ last' = Outcome("clear_preview", r.status)
            /\ UNCHANGED <<objects, users_collection, collections, temp_meshes,
                           ever_collected>>
    IN returned(OBJECT_OT_clear_preview_execute(props))

Execute ==
    Collected("execute",
              OBJECT_OT_collect_with_method_execute(props, selected, temp_meshes), FALSE)

CollectSmaller ==
    Collected("collect_smaller",
              OBJECT_OT_collect_smaller_objects_execute(props, selected, temp_meshes), FALSE)

\* The user sets the panel to choice and selects S, runs Preview Selection,
\* looks at the result, runs Clear Preview and sets the panel back.
UserPreview(choice, S) ==
    /\ choice[1] # "REFERENCE" => S = {}
    /\ Previewed(OBJECT_OT_preview_collection_execute(Panel(props, choice), S, temp_meshes),
                 TRUE)

\* The user sets the panel to choice and selects S, runs Collect Objects, and
\* puts panel and selection back.
UserCollect(choice, S) ==
    /\ choice[1] # "REFERENCE" => S = {}
    /\ Collected("execute",
                 OBJECT_OT_collect_with_method_execute(Panel(props, choice), S, temp_meshes),
                 TRUE)

\* The user selects S, runs Collect Smaller Objects from the Select menu, and
\* puts the selection back.
UserCollectSmaller(S) ==
    Collected("collect_smaller",
              OBJECT_OT_collect_smaller_objects_execute(props, S, temp_meshes), TRUE)

\* ------------------------------------------------------------ the scenes
UserCollection(in_scene) ==
    [hide_viewport |-> FALSE, in_scene |-> in_scene, locked |-> FALSE]

\* "Props" is a collection of the scene, "Archive" one of another scene
BaseCollections ==
    [c \in {"Props", "Archive"} |-> UserCollection(c = "Props")]

\* where the objects are linked when the session starts: all in the scene's
\* master collection, all in it and in Props, or one of them outside the scene
Layouts ==
    { [o \in Objs |-> {MasterCollection}],
      [o \in Objs |-> {MasterCollection, "Props"}] }
        \cup { [o \in Objs |-> IF o = k THEN {"Archive"} ELSE {MasterCollection}] : k \in Objs }

\* the kinds of SceneShapes in a fixed order
SceneShapeSeq == [i \in 1..(MaxVol + 2) |-> IF i = 1 THEN NonMesh ELSE Solid(i - 2)]

\* the scenes up to the order of their objects
Scenes ==
    { [o \in Objs |-> SceneShapeSeq[f[o]]] :
        f \in {g \in [Objs -> 1..(MaxVol + 2)] : \A i \in 1..(NObj - 1) : g[i] <= g[i + 1]} }

\* the destination may exist before the add-on first runs: a visible
\* collection of the scene the user has made
InitCollections ==
    {BaseCollections,
     WithCollection(BaseCollections, DestinationName, UserCollection(TRUE))}

Init ==
    /\ objects \in Scenes
    /\ users_collection \in Layouts
    /\ collections \in InitCollections
    /\ selected = {}
    /\ props = DefaultProps
    /\ temp_meshes = NoMeshes
    /\ ever_collected = {}
    /\ last = NoOutcome

Next ==
    \/ \E choice \in MethodChoices : \E S \in Selections : UserCollect(choice, S)
    \/ \E S \in Selections : UserCollectSmaller(S)

Spec == Init /\ [][Next]_vars


\* --------------------------------------------------- the panel at work
\* the selections of at most one object
OneOrNone == {S \in Selections : Cardinality(S) <= 1}

\* all objects in the master collection, or the first one outside the scene
PanelLayouts ==
    { [o \in Objs |-> {MasterCollection}],
      [o \in Objs |-> IF o = 1 THEN {"Archive"} ELSE {MasterCollection}] }

\* The panel's operators as the user runs them one by one, the selection and
\* the panel's settings staying as each operator leaves them.
InitPanel ==
    /\ objects \in Scenes
    /\ users_collection \in PanelLayouts
    /\ collections = BaseCollections
    /\ selected = {}
    /\ props = DefaultProps
    /\ temp_meshes = NoMeshes
    /\ ever_collected = {}
    /\ last = NoOutcome

NextPanel ==
    \/ \E choice \in MethodChoices : ChooseMethod(choice)
    \/ \E S \in OneOrNone : Select(S)
    \/ Preview
    \/ ClearPreview
    \/ Execute
    \/ CollectSmaller

SpecPanel == InitPanel /\ [][NextPanel]_vars

\* ------------------------------------------------ analysis and geometry
\* The user scales up a mesh object right after an analysis: its volume grows.
EditGeometry(obj) ==
    /\ last.op = "analyze"
    /\ objects[obj].type = "MESH"
    /\ objects[obj].volume < MaxVol
    /\ objects' = [objects EXCEPT ![obj].volume = @ + 1]
    /\ last' = Outcome("edit", "")
    /\ UNCHANGED <<users_collection, collections, selected, props, temp_meshes,
                   ever_collected>>

InitStale ==
    /\ objects \in Scenes
    /\ users_collection = [o \in Objs |-> {MasterCollection}]
    /\ collections = BaseCollections
    /\ selected = {}
    /\ props = DefaultProps
    /\ temp_meshes = NoMeshes
    /\ ever_collected = {}
    /\ last = NoOutcome

\* Analyze Scene, an edit, then Preview Selection or Collect Objects on the
\* edited scene, over and over
NextStale ==
    \/ Analyze
    \/ \E obj \in Objs : EditGeometry(obj)
    \/ /\ last.op = "edit"
       /\ \E choice \in MethodChoices : \E S \in OneOrNone : UserPreview(choice, S)
    \/ /\ last.op = "edit"
       /\ \E choice \in MethodChoices : \E S \in OneOrNone : UserCollect(choice, S)

SpecStale == InitStale /\ [][NextStale]_vars

\* ------------------------------------------------- measuring the objects
\* One call of calculate_object_volume on obj, as the batch loops make it.
Measure(obj) ==
    LET m == calculate_object_volume(obj, temp_meshes)
    IN /\ temp_meshes' = Finished(m.meshes)
       /\ last' = [Outcome("measure", "RETURNED") EXCEPT
                     !.obj = obj, !.success = m.success,
                     !.volume = m.volume, !.error = m.error]
       /\ UNCHANGED <<objects, users_collection, collections, selected, props,
                      ever_collected>>

\* every kind of object, in a fixed order
AllShapeSeq ==
    [i \in 1..(MaxVol + 7) |->
        CASE i = 1 -> NonMesh
          [] i = 2 -> NoMeshData
          [] i = 3 -> EvalRaises
          [] i = 4 -> EmptyMesh
          [] i = 5 -> CalcRaises
          [] OTHER -> Solid(i - 7)]

\* the scenes of objects of every kind, up to the order of the objects
AllScenes ==
    { [o \in Objs |-> AllShapeSeq[f[o]]] :
        f \in {g \in [Objs -> 1..(MaxVol + 7)] : \A i \in 1..(NObj - 1) : g[i] <= g[i + 1]} }

InitMeasure ==
    /\ objects \in AllScenes
    /\ users_collection = [o \in Objs |-> {MasterCollection}]
    /\ collections = BaseCollections
    /\ selected = {}
    /\ props = DefaultProps
    /\ temp_meshes = NoMeshes
    /\ ever_collected = {}
    /\ last = NoOutcome

NextMeasure ==
    \/ \E obj \in Objs : Measure(obj)
    \/ Analyze
    \/ \E v \in AbsoluteValues : UserCollect(<<"ABSOLUTE", v>>, {})

SpecMeasure == InitMeasure /\ [][NextMeasure]_vars

\* ------------------------------------------------ resolving a threshold
\* the methods calculate_threshold_volume knows, and one it does not
ResolveMethods ==
    {"reference", "percentage_largest", "percentage_average", "absolute",
     "percentile", "median"}

\* parameter values: percentiles of the default table and others, and values
\* at and beyond both ends of the accepted range
ResolveValues == {-1, 0, 1, 30, 50, 80, 100, 101}

\* One call of calculate_threshold_volume(method, value, context,
\* reference_obj) on the scene as it stands.
Resolve(method, value, reference_obj) ==
    LET returned(r) ==
            /\ temp_meshes' = Finished(r.meshes)
            /\ last' = [Outcome("resolve", "RETURNED") EXCEPT
                          !.method = r.method,
                          !.value = value,
                          !.reference_obj = reference_obj,
                          !.success = r.success,
                          !.threshold_volume = r.threshold_volume,
                          !.error = r.error_message,
                          !.base_volume =
                              IF method \in {"percentage_largest", "percentage_average"}
                              THEN r.metadata.base_volume ELSE Zero,
                          !.objects_count =
                              IF method = "percentile"
                              THEN r.metadata.objects_count ELSE 0,
                          !.measured = r.meshes.measured]
            /\ UNCHANGED <<objects, users_collection, collections, selected, props,
                           ever_collected>>
    IN /\ last.op = "none"
       /\ returned(calculate_threshold_volume(method, value, reference_obj, temp_meshes))

InitResolve ==
    /\ objects \in AllScenes
    /\ users_collection \in Layouts
    /\ collections = BaseCollections
    /\ selected = {}
    /\ props = DefaultProps
    /\ temp_meshes = NoMeshes
    /\ ever_collected = {}
    /\ last = NoOutcome

NextResolve ==
    \/ \E value \in ResolveValues :
          \E method \in ResolveMethods \ {"reference"} : Resolve(method, value, NoObject)
    \/ \E reference_obj \in Objs \cup {NoObject} : Resolve("reference", 0, reference_obj)

SpecResolve == InitResolve /\ [][NextResolve]_vars

\* ------------------------------------------------ counting the objects
\* The object count of process_percentile_method as a function of the
\* percentile and of the number of valid objects the analysis has found.
CountObjects ==
    /\ last.op = "none"
    /\ last' = [last EXCEPT
                  !.op = "objects_count",
                  !.objects_count = objects_count(last.value, last.valid_objects)]
    /\ UNCHANGED <<objects, users_collection, collections, selected, props,
                   temp_meshes, ever_collected>>

\* every percentile the method accepts, with up to MaxValid valid objects
InitCount ==
    /\ objects = [o \in Objs |-> Solid(1)]
    /\ users_collection = [o \in Objs |-> {MasterCollection}]
    /\ collections = BaseCollections
    /\ selected = {}
    /\ props = DefaultProps
    /\ temp_meshes = NoMeshes
    /\ ever_collected = {}
    /\ \E percentile \in 1..100 : \E valid_objects \in 1..MaxValid :
          last = [NoOutcome EXCEPT !.method = "percentile", !.value = percentile,
                                   !.valid_objects = valid_objects]

NextCount == CountObjects

SpecCount == InitCount /\ [][NextCount]_vars

\* ------------------------------------------- statistics of a population
\* the ascending populations of up to MaxPop volumes 0.1, 0.2, ..., each
\* written by its tenths
Populations ==
    UNION { {pop \in [1..n -> 1..MaxTenths] : \A i \in 1..(n - 1) : pop[i] <= pop[i + 1]} :
            n \in 1..MaxPop }

\* the floats of a population
volume_values(pop) == [i \in 1..Len(pop) |-> float_ratio(pop[i], 10)]

\* Percentile p by calculate_percentiles and the median by analyze_scene, of
\* the same ascending volumes.
Statistics(p) ==
    /\ last.op = "none"
    /\ last' = [last EXCEPT
                  !.op = "statistics",
                  !.value = p,
                  !.percentile = float_percentile(volume_values(last.population), p),
                  !.median_volume = float_median(volume_values(last.population))]
    /\ UNCHANGED <<objects, users_collection, collections, selected, props,
                   temp_meshes, ever_collected>>

InitStatistics ==
    /\ objects = [o \in Objs |-> Solid(1)]
    /\ users_collection = [o \in Objs |-> {MasterCollection}]
    /\ collections = BaseCollections
    /\ selected = {}
    /\ props = DefaultProps
    /\ temp_meshes = NoMeshes
    /\ ever_collected = {}
    /\ \E pop \in Populations : last = [NoOutcome EXCEPT !.population = pop]

NextStatistics == \E p \in {0, 50, 100} : Statistics(p)

SpecStatistics == InitStatistics /\ [][NextStatistics]_vars

\* ------------------------------------------------ analysing the scene
\* One call of analyze_scene(context) on the scene as it stands.
AnalyzeScene ==
    LET returned(r) ==
            /\ temp_meshes' = Finished(r.meshes)
            /\ last' = [Outcome("analyze_scene", "RETURNED") EXCEPT !.analysis = r]
            /\ UNCHANGED <<objects, users_collection, collections, selected, props,
                           ever_collected>>
    IN /\ last.op = "none"
       /\ returned(analyze_scene(temp_meshes))

\* the scenes of objects of every kind, in every order
InitAnalysis ==
    /\ objects \in [Objs -> {AllShapeSeq[i] : i \in DOMAIN AllShapeSeq}]
    /\ users_collection \in Layouts
    /\ collections = BaseCollections
    /\ selected = {}
    /\ props = DefaultProps
    /\ temp_meshes = NoMeshes
    /\ ever_collected = {}
    /\ last = NoOutcome

NextAnalysis == AnalyzeScene

SpecAnalysis == InitAnalysis /\ [][NextAnalysis]_vars

\* ------------------------------------------------ gaps of a population
\* ascending volumes: a first volume 1, each next volume a multiple of the one
\* before
RECURSIVE Multiples(_)
Multiples(n) ==
    IF n = 1 THEN {<<1>>}
    ELSE {Append(pop, k * pop[n - 1]) : pop \in Multiples(n - 1), k \in 1..4}

\* the populations of up to MaxGapPop volumes, a volume 0 at the start of
\* some, and the population 1, 1, 1, 100
GapPopulations ==
    UNION { Multiples(n) \cup {<<0>> \o SubSeq(pop, 1, n - 1) : pop \in Multiples(n)} :
            n \in 1..MaxGapPop }
        \cup {<<1, 1, 1, 100>>}

\* the list of (name, volume) pairs of a population
volumes_list(pop) == [i \in 1..Len(pop) |-> <<i, pop[i]>>]

\* One call of detect_natural_gaps(volumes_list, min_gap_ratio).
DetectGaps(min_gap_ratio) ==
    /\ last.op = "none"
    /\ last' = [last EXCEPT
                  !.op = "natural_gaps",
                  !.value = min_gap_ratio,
                  !.gaps = detect_natural_gaps(volumes_list(last.population), min_gap_ratio)]
    /\ UNCHANGED <<objects, users_collection, collections, selected, props,
                   temp_meshes, ever_collected>>

InitGaps ==
    /\ objects = [o \in Objs |-> Solid(1)]
    /\ users_collection = [o \in Objs |-> {MasterCollection}]
    /\ collections = BaseCollections
    /\ selected = {}
    /\ props = DefaultProps
    /\ temp_meshes = NoMeshes
    /\ ever_collected = {}
    /\ \E pop \in GapPopulations : last = [NoOutcome EXCEPT !.population = pop]

NextGaps == \E min_gap_ratio \in {2, 3} : DetectGaps(min_gap_ratio)

SpecGaps == InitGaps /\ [][NextGaps]_vars

\* ------------------------------------------------ the two versions
\* process_reference_object_method with selected_obj as the reference, and
\* what move_smaller_objects of v1.1 does on the same scene with the same
\* object selected (moved, raised)
ByReference(selected_obj) ==
    LET compared(r, old) ==
            /\ users_collection' = r.users_collection
            /\ collections' = r.collections
            /\ temp_meshes' = Finished(r.meshes)
            /\ ever_collected' = ever_collected \cup r.relocated
            /\ last' = [Outcome("by_reference", "RETURNED") EXCEPT
                          !.reference_obj = selected_obj,
                          !.success = r.success,
                          !.collected_count = r.collected_count,
                          !.skipped_count = r.skipped_count,
                          !.skipped_objects = r.skipped_objects,
                          !.relocated = r.relocated,
                          !.moved = old.relocated,
                          !.raised = old.raised]
            /\ UNCHANGED <<objects, selected, props>>
    IN /\ last.op = "none"
       /\ compared(process_reference_object_method(selected_obj, users_collection,
                                                   collections, temp_meshes),
                   move_smaller_objects({selected_obj}, users_collection,
                                        collections, temp_meshes))

InitVersions ==
    /\ objects \in AllScenes
    /\ users_collection \in Layouts
    /\ collections \in InitCollections
    /\ selected = {}
    /\ props = DefaultProps
    /\ temp_meshes = NoMeshes
    /\ ever_collected = {}
    /\ last = NoOutcome

NextVersions == \E selected_obj \in Objs : ByReference(selected_obj)

SpecVersions == InitVersions /\ [][NextVersions]_vars

\* ------------------------------------------------ a destination that takes no links
\* "Littles" exists as a collection linked from a library file: a look-up by
\* name finds it, and linking an object to it raises
LibraryDestination ==
    WithCollection(BaseCollections, DestinationName,
        [hide_viewport |-> FALSE, in_scene |-> TRUE, locked |-> TRUE])

InitLibrary ==
    /\ objects \in Scenes
    /\ users_collection \in Layouts
    /\ collections \in {BaseCollections, LibraryDestination}
    /\ selected = {}
    /\ props = DefaultProps
    /\ temp_meshes = NoMeshes
    /\ ever_collected = {}
    /\ last = NoOutcome

\* Collect Objects with a method that needs no selection
NextLibrary ==
    \E choice \in MethodChoices \ ({"REFERENCE"} \X {0}) : UserCollect(choice, {})

SpecLibrary == InitLibrary /\ [][NextLibrary]_vars

\* ------------------------------------------- thresholds of a population
\* parameters the statistics-based methods accept
AcceptedValues == {1, 50, 99, 100}

\* The threshold a statistics-based method resolves on a scene whose valid
\* volumes are the population.
ResolveOnPopulation(method, value) ==
    /\ last.op = "none"
    /\ last' = [last EXCEPT
                  !.op = "threshold",
                  !.method = method,
                  !.value = value,
                  !.valid_objects = Len(last.population),
                  !.threshold = float_threshold(method, value,
                                                volume_values(last.population))]
    /\ UNCHANGED <<objects, users_collection, collections, selected, props,
                   temp_meshes, ever_collected>>

InitThresholds == InitStatistics

NextThresholds ==
    \E method \in {"percentage_largest", "percentage_average", "percentile"} :
        \E value \in AcceptedValues : ResolveOnPopulation(method, value)

SpecThresholds == InitThresholds /\ [][NextThresholds]_vars

\* ------------------------------------------------ the preview state
\* the methods the user switches between
PreviewChoices == {<<"REFERENCE", 0>>, <<"PERCENTILE", 80>>, <<"ABSOLUTE", 2>>}

InitPreview == InitPanel

\* Analyze Scene, Preview Selection, Clear Preview and Collect Objects in any
\* order, the user changing method and selection in between
NextPreview ==
    \/ \E choice \in PreviewChoices : ChooseMethod(choice)
    \/ \E S \in OneOrNone : Select(S)
    \/ Analyze
    \/ Preview
    \/ ClearPreview
    \/ Execute

SpecPreview == InitPreview /\ [][NextPreview]_vars

\* ------------------------------------------------------------ the claims
\* the measurement of o succeeds: a mesh with vertices whose volume is
\* computed and positive
Measurable(o) ==
    /\ objects[o].type = "MESH"
    /\ objects[o].eval = "mesh"
    /\ objects[o].vertices > 0
    /\ objects[o].calc = "ok"
    /\ objects[o].volume > 0

\* the last action was a Collect run that went through
CollectRun ==
    /\ last.op \in {"execute", "collect_smaller"}
    /\ last.status = "FINISHED"

\* the volume of o is strictly below / exactly at the cutoff of the last run
BelowCutoff(o) == objects[o].volume * last.threshold_volume.den < last.threshold_volume.num
AtCutoff(o) == objects[o].volume * last.threshold_volume.den = last.threshold_volume.num

\* the objects the last run had to classify
Candidates == {o \in Objs : objects[o].type = "MESH" /\ o # last.reference_obj}

\* the indexes of the entries of skipped_objects that name o
SkippedEntries(o) ==
    {i \in 1..Len(last.skipped_objects) : last.skipped_objects[i][1] = o}

\* C1: a Collect run relocates a measured, non-excluded mesh object if and
\* only if its volume is strictly below the threshold; an object at or above
\* the threshold keeps its links and is not counted in collected_count.
C1_StrictThreshold ==
    CollectRun =>
        /\ \A o \in Candidates :
              Measurable(o) =>
                  /\ (o \in last.relocated) <=> BelowCutoff(o)
                  /\ BelowCutoff(o) => users_collection[o] = {DestinationName}
                  /\ ~BelowCutoff(o) => o \notin last.changed
        /\ last.collected_count =
               Cardinality({o \in Candidates : Measurable(o) /\ BelowCutoff(o)})

\* a run that left an object exactly at the cutoff where it was and moved
\* another one
C1_Witness ==
    /\ CollectRun
    /\ \E a, b \in Candidates :
          /\ Measurable(a) /\ AtCutoff(a) /\ a \notin last.relocated
          /\ Measurable(b) /\ b \in last.relocated

\* C2: in a Collect run every object whose measurement fails has exactly one
\* entry (name, reason) in skipped_objects and is neither relocated nor
\* counted as collected; the objects after it are still classified;
\* skipped_count is the length of skipped_objects, and collected_count +
\* skipped_count is at most the number of non-excluded mesh objects.
C2_FailuresAreSkipped ==
    CollectRun =>
        /\ last.skipped_count = Len(last.skipped_objects)
        /\ \A o \in Candidates :
              ~Measurable(o) =>
                  /\ Cardinality(SkippedEntries(o)) = 1
                  /\ \A i \in SkippedEntries(o) : last.skipped_objects[i][2] # ""
                  /\ o \notin last.relocated
                  /\ o \notin last.changed
                  /\ \A later \in Candidates :
                        (later > o /\ Measurable(later)) =>
                            ((later \in last.relocated) <=> BelowCutoff(later))
        /\ last.skipped_count = Cardinality({o \in Candidates : ~Measurable(o)})
        /\ last.collected_count = Cardinality(last.relocated)
        /\ last.collected_count + last.skipped_count <= Cardinality(Candidates)

\* a run that skipped a failing object and then collected a later one
C2_Witness ==
    /\ CollectRun
    /\ \E f, o \in Candidates :
          /\ ~Measurable(f) /\ SkippedEntries(f) # {}
          /\ o > f /\ o \in last.relocated

\* C3: every object some Collect run has collected is linked to the
\* destination collection and to no other collection.
C3_CollectedOnlyInDestination ==
    \A o \in ever_collected : users_collection[o] = {DestinationName}

\* a run relocated an object that was in the destination already
C3_Witness ==
    /\ CollectRun
    /\ \E o \in last.relocated :
          /\ o \notin last.changed
          /\ users_collection[o] = {DestinationName}

\* C4 as claimed: a second Collect Objects run with the same cutoff reports
\* collected_count = 0 and relocates no object.
C4_SecondRunCollectsNothing ==
    (last.op = "execute" /\ last.again) =>
        (last.collected_count = 0 /\ last.relocated = {})

\* C4: a second Collect Objects run with the same cutoff changes the links of
\* no object and creates no collection; the objects it relocates and counts
\* are those below the cutoff, each of which is in the destination already.
C4_SecondRunChangesNothing ==
    (last.op = "execute" /\ last.again) =>
        /\ last.changed = {}
        /\ ~last.created
        /\ last.collected_count = Cardinality(last.relocated)
        /\ last.relocated = {o \in Candidates : Measurable(o) /\ BelowCutoff(o)}

\* a second run that counts objects again
C4_Witness ==
    /\ last.op = "execute"
    /\ last.again
    /\ last.collected_count > 0

\* C5: Collect Smaller Objects with a reference object R that measures:
\* R is neither relocated nor skipped, collected_count is the number of other
\* measurable mesh objects strictly smaller than R, skipped_count the number
\* of other mesh objects whose measurement fails.
C5_ReferenceMethod ==
    (last.op = "collect_smaller" /\ last.status = "FINISHED") =>
        LET R == last.reference_obj
            others == {o \in Objs : o # R /\ objects[o].type = "MESH"}
        IN /\ Measurable(R)
           /\ R \notin last.relocated
           /\ R \notin last.changed
           /\ SkippedEntries(R) = {}
           /\ last.collected_count =
                  Cardinality({o \in others :
                      Measurable(o) /\ objects[o].volume < objects[R].volume})
           /\ last.relocated =
                  {o \in others : Measurable(o) /\ objects[o].volume < objects[R].volume}
           /\ last.skipped_count = Cardinality({o \in others : ~Measurable(o)})

\* the scenario of a reference, a smaller object and a degenerate one
C5_Witness ==
    /\ last.op = "collect_smaller"
    /\ last.status = "FINISHED"
    /\ last.collected_count = 1
    /\ last.skipped_count = 1
    /\ \E o \in Objs : o # last.reference_obj /\ objects[o] = Solid(0)

\* the collections whose name is the destination's or derived from it
DestinationLike == {DestinationName, DestinationName \o ".001", DestinationName \o ".002"}

\* C7: the destination is got or created by name: a step that finds it
\* leaves bpy.data.collections as it is, visibility included; a step that
\* does not find it adds at most that one collection, hidden and linked to
\* the scene; there is never a second destination, and after a Collect run
\* the destination exists.
C7_GetOrCreate ==
    /\ [][IF DestinationName \in DOMAIN collections
          THEN collections' = collections
          ELSE \/ collections' = collections
               \/ collections' =
                      WithCollection(collections, DestinationName,
                          [hide_viewport |-> TRUE, in_scene |-> TRUE, locked |-> FALSE])]_vars
    /\ [](/\ DOMAIN collections \cap DestinationLike \subseteq {DestinationName}
          /\ CollectRun => DestinationName \in DOMAIN collections)

\* a run has created the destination, hidden and in the scene
C7_Witness ==
    /\ CollectRun
    /\ last.created
    /\ collections[DestinationName].hide_viewport
    /\ collections[DestinationName].in_scene

\* C8: calculate_object_volume returns success only with a strictly positive
\* volume, the one computed; for an object that is not a mesh, has no mesh
\* data, has no vertices, has a volume <= 0, or whose evaluation or volume
\* computation raises, it returns (False, 0, message) with a non-empty message.
C8_VolumeResult ==
    last.op = "measure" =>
        LET shape == objects[last.obj]
        IN /\ last.status = "RETURNED"
           /\ last.success <=> Measurable(last.obj)
           /\ last.success =>
                 /\ last.volume > 0
                 /\ last.volume = shape.volume
                 /\ last.error = ""
           /\ ~last.success => (last.volume = 0 /\ last.error # "")
           /\ ( \/ shape.type # "MESH"
                \/ shape.eval # "mesh"
                \/ shape.vertices = 0
                \/ shape.calc = "raises"
                \/ shape.volume <= 0 ) => ~last.success

\* an object with negative volume was measured and refused
C8_Witness ==
    /\ last.op = "measure"
    /\ objects[last.obj] = Solid(0 - 1)
    /\ ~last.success
    /\ last.error # ""

C6_PreviewLeavesCollections ==
    [][last'.op = "preview" =>
          /\ users_collection' = users_collection
          /\ collections' = collections
          /\ ever_collected' = ever_collected]_vars

\* a preview has selected objects and there is no destination
C6_Witness ==
    /\ last.op = "preview"
    /\ last.status = "FINISHED"
    /\ last.chosen # {}
    /\ DestinationName \notin DOMAIN collections

\* the volumes of the scene's measurable objects as they are now, ascending
CurrentVolumes ==
    LET pairs == SortByVolume([i \in 1..Cardinality({o \in scene_objects : Measurable(o)}) |->
                     <<InOrder({o \in scene_objects : Measurable(o)})[i],
                       objects[InOrder({o \in scene_objects : Measurable(o)})[i]].volume>>])
    IN [i \in 1..Len(pairs) |-> pairs[i][2]]

\* the cutoff the method and value of the last run give on the scene as it
\* is now
CurrentThreshold ==
    CASE last.method = "REFERENCE" -> RatOfInt(objects[last.reference_obj].volume)
      [] last.method = "PERCENTAGE_LARGEST" ->
             Rat(CurrentVolumes[Len(CurrentVolumes)] * last.value, 100)
      [] last.method = "PERCENTAGE_AVERAGE" ->
             Rat(SumSeq(CurrentVolumes) * last.value, Len(CurrentVolumes) * 100)
      [] last.method = "PERCENTILE" -> Percentile(CurrentVolumes, last.value)
      [] OTHER -> RatOfInt(last.value)

\* C10: Preview Selection and Collect Objects resolve the threshold and pick
\* the objects from the geometry as it is when they run: the threshold is
\* the one the method gives on the current volumes and the objects picked are
\* those now below it, also when Analyze Scene has stored statistics of an
\* earlier geometry.
C10_CurrentGeometry ==
    (last.op \in {"preview", "execute"} /\ last.status = "FINISHED") =>
        /\ RatEq(last.threshold_volume, CurrentThreshold)
        /\ (IF last.op = "preview" THEN last.chosen ELSE last.relocated) =
               {o \in Candidates : Measurable(o) /\ BelowCutoff(o)}

\* a run after the largest volume has changed since the analysis
C10_Witness ==
    /\ last.op \in {"preview", "execute"}
    /\ last.status = "FINISHED"
    /\ last.method = "PERCENTAGE_LARGEST"
    /\ props.analysis_done
    /\ ~RatEq(props.max_volume, RatOfInt(CurrentVolumes[Len(CurrentVolumes)]))
    /\ last.chosen \cup last.relocated # {}

\* a positive volume
Positive(v) == RatLess(Zero, v)

\* C11: calculate_threshold_volume returns one of two shapes: success with a
\* positive threshold_volume and an empty error_message, or failure with
\* threshold_volume 0 and a non-empty error_message.
C11_ResultShape ==
    last.op = "resolve" =>
        \/ last.success /\ Positive(last.threshold_volume) /\ last.error = ""
        \/ ~last.success /\ RatEq(last.threshold_volume, Zero) /\ last.error # ""

\* both shapes occur
C11_Witness ==
    /\ last.op = "resolve"
    /\ last.method = "percentage_average"
    /\ last.success
    /\ Positive(last.threshold_volume)
    /\ \E o \in Objs : ~Measurable(o)

\* C12: method 'reference' succeeds exactly when a reference object is given
\* and its measurement succeeds, and the threshold is then the volume
\* measured for it.
C12_ReferenceResolution ==
    (last.op = "resolve" /\ last.method = "reference") =>
        /\ last.success <=>
              (last.reference_obj # NoObject /\ Measurable(last.reference_obj))
        /\ last.success =>
              RatEq(last.threshold_volume, RatOfInt(objects[last.reference_obj].volume))

\* a reference object outside the scene resolves the threshold as well
C12_Witness ==
    /\ last.op = "resolve"
    /\ last.method = "reference"
    /\ last.success
    /\ last.reference_obj # NoObject
    /\ users_collection[last.reference_obj] = {"Archive"}
    /\ RatEq(last.threshold_volume, RatOfInt(MaxVol))

\* C13: method 'absolute' succeeds exactly when the value is positive, the
\* threshold is then the value itself, and no object is measured while the
\* threshold is resolved.
C13_AbsoluteResolution ==
    (last.op = "resolve" /\ last.method = "absolute") =>
        /\ last.success <=> last.value > 0
        /\ last.success => RatEq(last.threshold_volume, RatOfInt(last.value))
        /\ last.measured = {}

\* an absolute threshold resolved in a scene that has objects to measure
C13_Witness ==
    /\ last.op = "resolve"
    /\ last.method = "absolute"
    /\ last.success
    /\ RatEq(last.threshold_volume, RatOfInt(30))
    /\ \E o \in scene_objects : Measurable(o)
    /\ last.measured = {}

\* the scene's objects whose measurement succeeds
ValidInScene == {o \in scene_objects : Measurable(o)}

\* the largest volume among the scene's valid objects
LargestVolume ==
    LET volumes == {objects[o].volume : o \in ValidInScene}
    IN CHOOSE v \in volumes : \A w \in volumes : w <= v

\* the mean volume of the scene's valid objects
AverageVolume == Rat(SumSeq(CurrentVolumes), Cardinality(ValidInScene))

\* C14: for 'percentage_largest' (resp. 'percentage_average') with a
\* percentage in 0 < pct <= 100 and at least one valid object in the scene,
\* the resolution succeeds, the base volume reported is the maximum (resp. the
\* mean) of the scene's valid volumes, and the threshold is that base volume
\* times pct / 100.
C14_PercentageResolution ==
    (/\ last.op = "resolve"
     /\ last.method \in {"percentage_largest", "percentage_average"}
     /\ 0 < last.value /\ last.value <= 100
     /\ ValidInScene # {}) =>
        LET base == IF last.method = "percentage_largest"
                    THEN RatOfInt(LargestVolume) ELSE AverageVolume
        IN /\ last.success
           /\ RatEq(last.base_volume, base)
           /\ RatEq(last.threshold_volume, Rat(base.num * last.value, base.den * 100))

\* a percentage of the mean of two different volumes, a larger object lying
\* outside the scene
C14_Witness ==
    /\ last.op = "resolve"
    /\ last.method = "percentage_average"
    /\ last.value = 30
    /\ last.success
    /\ Cardinality(ValidInScene) = 2
    /\ RatEq(last.base_volume, Rat(3, 2))
    /\ RatEq(last.threshold_volume, Rat(9, 20))
    /\ \E o \in Objs \ scene_objects : Measurable(o)

\* The value the interpolation formula gives for percentile p of the ascending
\* volumes v[0..N-1], written here with indices from 1: with i = (p/100)(N-1)
\* and f = floor(i), v[f] + (i - f) * (v[min(f + 1, N - 1)] - v[f]).
Interpolated(v, p) ==
    LET N == Len(v)
        f == CHOOSE k \in 0..(N - 1) : 100 * k <= p * (N - 1) /\ p * (N - 1) < 100 * (k + 1)
        u == IF f + 1 <= N - 1 THEN f + 1 ELSE N - 1
    IN Rat(100 * v[f + 1] + (p * (N - 1) - 100 * f) * (v[u + 1] - v[f + 1]), 100)

\* C15: for 'percentile' with 0 < p <= 100 and N >= 1 valid volumes v[0..N-1]
\* in ascending order, the resolution succeeds and the threshold is the linear
\* interpolation v[floor(i)] + (i - floor(i)) * (v[min(floor(i)+1, N-1)] -
\* v[floor(i)]) at i = (p/100)(N-1), for the percentiles of the default table
\* and for those computed on demand alike.
C15_PercentileInterpolation ==
    (/\ last.op = "resolve"
     /\ last.method = "percentile"
     /\ 0 < last.value /\ last.value <= 100
     /\ ValidInScene # {}) =>
        /\ last.success
        /\ RatEq(last.threshold_volume, Interpolated(CurrentVolumes, last.value))

\* a percentile outside the default table that falls between two different
\* volumes
C15_Witness ==
    /\ last.op = "resolve"
    /\ last.method = "percentile"
    /\ last.value = 30
    /\ last.value \notin DefaultPercentiles
    /\ last.success
    /\ CurrentVolumes = <<1, 2, 2>>
    /\ RatEq(last.threshold_volume, Rat(8, 5))

\* C16: a successful 'percentile' resolution reports an object count equal
\* to floor(percentile / 100 * validCount).
C16_ObjectCount ==
    /\ last.op = "objects_count" =>
          last.objects_count = (last.value * last.valid_objects) \div 100
    /\ (last.op = "resolve" /\ last.method = "percentile" /\ last.success) =>
          last.objects_count = (last.value * Cardinality(ValidInScene)) \div 100

\* percentile 58 of 50 valid objects: 29 objects by the formula, 28 reported
C16_Reported28 ==
    /\ last.op = "objects_count"
    /\ last.value = 58
    /\ last.valid_objects = 50
    /\ last.objects_count = 28

\* C17: the methods that need the scene's statistics ('percentage_largest',
\* 'percentage_average', 'percentile') fail exactly when the parameter lies
\* outside 0 < x <= 100 or the scene has no mesh object with a valid volume;
\* a parameter out of range is refused before any object is measured.
C17_StatisticsMethodsFail ==
    (/\ last.op = "resolve"
     /\ last.method \in {"percentage_largest", "percentage_average", "percentile"}) =>
        /\ ~last.success <=>
              (last.value <= 0 \/ last.value > 100 \/ ValidInScene = {})
        /\ (last.value <= 0 \/ last.value > 100) => last.measured = {}

\* a percentile above 100 refused in a scene whose objects all have a valid
\* volume, none of them measured
C17_Witness ==
    /\ last.op = "resolve"
    /\ last.method = "percentile"
    /\ last.value = 101
    /\ ~last.success
    /\ ValidInScene = Objs
    /\ last.measured = {}

\* C18: when Collect Objects is cancelled, as it is when the threshold cannot
\* be resolved, no object is relocated, no destination collection is created,
\* the stored preview state stays as it was and the operator returns
\* CANCELLED.
C18_FailedExecuteTouchesNothing ==
    [][(last'.op = "execute" /\ last'.status = "CANCELLED") =>
          /\ users_collection' = users_collection
          /\ collections' = collections
          /\ props' = props
          /\ last'.relocated = {}
          /\ ~last'.created]_vars

\* Collect Objects cancelled because the selected reference mesh cannot be
\* measured, while a preview is stored and no destination exists
C18_Witness ==
    /\ last.op = "execute"
    /\ last.status = "CANCELLED"
    /\ props.threshold_method = "REFERENCE"
    /\ \E o \in Objs : /\ selected = {o}
                       /\ objects[o].type = "MESH"
                       /\ ~Measurable(o)
    /\ props.preview_active
    /\ DestinationName \notin DOMAIN collections

\* x < y, for floats x, y >= 0
FloatLess(x, y) ==
    LET e == IF x.e < y.e THEN x.e ELSE y.e
        less(a, b) ==
            \/ Len(a) < Len(b)
            \/ /\ Len(a) = Len(b)
               /\ \E i \in 1..Len(a) : a[i] < b[i] /\ \A k \in 1..(i - 1) : a[k] = b[k]
    IN IF y.m = <<>> THEN FALSE
       ELSE IF x.m = <<>> THEN TRUE
       ELSE less(digits_at(x, e), digits_at(y, e))

\* C19: for every non-empty population, percentile 50 computed by
\* calculate_percentiles is equal to the median computed by analyze_scene
\* (the middle element for an odd count, the average of the two central
\* elements for an even count).
C19_PercentileIsMedian ==
    (last.op = "statistics" /\ last.value = 50) => last.percentile = last.median_volume

\* the volumes 0.1 and 0.5: median 0.3, percentile 50 the next float above
C19_Witness ==
    /\ last.op = "statistics"
    /\ last.value = 50
    /\ last.population = <<1, 5>>
    /\ FloatLess(last.median_volume, last.percentile)

\* C20: for every non-empty ascending population calculate_percentiles gives
\* the minimum for percentile 0 and the maximum for percentile 100, no index
\* falling outside the sequence; for a population of one value every
\* percentile is that value.
C20_PercentileEnds ==
    last.op = "statistics" =>
        /\ last.value = 0 => last.percentile = volume_values(last.population)[1]
        /\ last.value = 100 =>
              last.percentile = volume_values(last.population)[Len(last.population)]
        /\ Len(last.population) = 1 =>
              last.percentile = volume_values(last.population)[1]

\* percentile 100 of three volumes, the largest above the others
C20_Witness ==
    /\ last.op = "statistics"
    /\ last.value = 100
    /\ last.population = <<1, 3, 7>>
    /\ last.percentile = float_ratio(7, 10)

\* the adjacent pairs of the last population that qualify as a gap, each by
\* the index of its first volume
GapPairs ==
    {i \in 1..(Len(last.population) - 1) :
        /\ last.population[i] > 0
        /\ last.population[i + 1] >= last.value * last.population[i]}

\* the entry of the pair at i
GapEntry(i) ==
    [radicand |-> last.population[i] * last.population[i + 1],
     ratio |-> Rat(last.population[i + 1], last.population[i])]

\* C21: detect_natural_gaps on an ascending population returns entries
\* (threshold, ratio) for the adjacent pairs (prev, next) with prev > 0 and
\* next / prev >= min_gap_ratio only, with ratio = next / prev and threshold
\* squared = prev * next; it keeps the five of largest ratio (all of them when
\* there are at most five) and returns them in non-increasing order of ratio.
\* [1, 1, 1, 100] with ratio 3 gives the one gap of ratio 100 at threshold 10;
\* a population of equal volumes or of one volume gives none.
C21_NaturalGaps ==
    last.op = "natural_gaps" =>
        LET gaps == last.gaps
            kept(e) == Cardinality({k \in 1..Len(gaps) : gaps[k] = e})
            found(e) == Cardinality({i \in GapPairs : GapEntry(i) = e})
        IN /\ Len(gaps) = IF Cardinality(GapPairs) < 5 THEN Cardinality(GapPairs) ELSE 5
           /\ \A k \in 1..Len(gaps) :
                 /\ \E i \in GapPairs : gaps[k] = GapEntry(i)
                 /\ kept(gaps[k]) <= found(gaps[k])
           /\ \A i \in GapPairs :
                 (\E k \in 1..Len(gaps) : RatLess(gaps[k].ratio, GapEntry(i).ratio)) =>
                     kept(GapEntry(i)) = found(GapEntry(i))
           /\ \A k \in 1..(Len(gaps) - 1) : ~RatLess(gaps[k].ratio, gaps[k + 1].ratio)
           /\ (last.population = <<1, 1, 1, 100>> /\ last.value = 3) =>
                 gaps = <<[radicand |-> 10 * 10, ratio |-> RatOfInt(100)]>>
           /\ (\A i \in 1..Len(last.population) : last.population[i] = last.population[1]) =>
                 gaps = <<>>

\* more than five gaps of different ratios found, the larger ones later
C21_Witness ==
    /\ last.op = "natural_gaps"
    /\ last.value = 2
    /\ last.population = <<1, 2, 4, 8, 24, 72, 288>>
    /\ Len(last.gaps) = 5
    /\ last.gaps[1].ratio = Rat(288, 72)
    /\ last.gaps[5].ratio = Rat(4, 2)

\* the entries of an analysis that are counts, statistics or lists, and the
\* temporary meshes carried along with them
StatisticsKeys ==
    {"total_objects", "valid_objects", "invalid_objects", "invalid_reasons",
     "min_volume", "max_volume", "mean_volume", "median_volume", "variance",
     "percentiles", "volumes", "meshes"}

\* the analysis is of a scene none of whose objects yields a valid volume
NoValidVolume == last.op = "analyze_scene" /\ ValidInScene = {}

\* the statistics of the last analysis are the zeros they were set to at the
\* start: nothing was divided by the size of the population
ZeroValued ==
    /\ last.analysis.min_volume = Zero
    /\ last.analysis.max_volume = Zero
    /\ last.analysis.mean_volume = Zero
    /\ last.analysis.median_volume = Zero
    /\ last.analysis.variance = Zero

\* C22 as stated: when no object of the scene yields a valid volume,
\* analyze_scene returns a zero-valued statistics result that carries an
\* explicit no-data flag, an entry of its own beside the counts, the
\* statistics and the lists, and divides nothing by the population size.
C22_ZeroValuedWithFlag ==
    NoValidVolume =>
        /\ ZeroValued
        /\ \E key \in DOMAIN last.analysis : key \notin StatisticsKeys

\* C22 amended: when no object of the scene yields a valid volume,
\* analyze_scene returns a zero-valued statistics result (min, max, mean,
\* median and standard deviation all 0, no percentiles, no volumes) and
\* divides nothing by the population size; the result has no entry that flags
\* the missing data, which shows in valid_objects = 0 only.
C22_ZeroValuedNoFlag ==
    NoValidVolume =>
        /\ ZeroValued
        /\ last.analysis.valid_objects = 0
        /\ last.analysis.volumes = <<>>
        /\ DOMAIN last.analysis.percentiles = {}
        /\ DOMAIN last.analysis \subseteq StatisticsKeys

\* a scene of mesh objects every one of which fails its measurement
C22_Witness ==
    /\ NoValidVolume
    /\ \A o \in Objs : objects[o].type = "MESH" /\ o \in scene_objects
    /\ last.analysis.total_objects = NObj
    /\ last.analysis.invalid_objects = NObj
    /\ ZeroValued

\* the mesh objects of the scene
MeshInScene == {o \in scene_objects : objects[o].type = "MESH"}

\* C23: analyze_scene puts every mesh object of the scene into exactly one of
\* the valid population and the invalid list: valid_objects + invalid_objects
\* = total_objects; volumes has one entry per valid object, in non-decreasing
\* order of volume and with volumes > 0 only; invalid_reasons has one
\* (name, reason) entry per invalid object.
C23_Buckets ==
    last.op = "analyze_scene" =>
        LET a == last.analysis
        IN /\ a.total_objects = Cardinality(MeshInScene)
           /\ a.valid_objects + a.invalid_objects = a.total_objects
           /\ Len(a.volumes) = a.valid_objects
           /\ {a.volumes[i][1] : i \in 1..Len(a.volumes)} = ValidInScene
           /\ Cardinality(ValidInScene) = a.valid_objects
           /\ \A i \in 1..Len(a.volumes) :
                 /\ a.volumes[i][2] = objects[a.volumes[i][1]].volume
                 /\ a.volumes[i][2] > 0
           /\ \A i \in 1..(Len(a.volumes) - 1) : a.volumes[i][2] <= a.volumes[i + 1][2]
           /\ Len(a.invalid_reasons) = a.invalid_objects
           /\ {a.invalid_reasons[i][1] : i \in 1..Len(a.invalid_reasons)} =
                  MeshInScene \ ValidInScene
           /\ Cardinality(MeshInScene \ ValidInScene) = a.invalid_objects
           /\ \A i \in 1..Len(a.invalid_reasons) : a.invalid_reasons[i][2] # ""

\* two valid objects met in descending order of volume, and an invalid one
C23_Witness ==
    /\ last.op = "analyze_scene"
    /\ last.analysis.valid_objects = 2
    /\ last.analysis.invalid_objects >= 1
    /\ \E o, q \in ValidInScene : o < q /\ objects[o].volume > objects[q].volume

\* C24: for every threshold method, the objects a finished Preview has
\* selected are the objects an Execute relocates when it is run right after
\* it, the panel's settings and the scene as the Preview left them.
C24_PreviewShowsCollected ==
    [][(/\ last.op = "preview"
        /\ last.status = "FINISHED"
        /\ last'.op = "execute")
           => last'.relocated = selected]_vars

\* a Preview by reference that has selected something: the reference itself
\* no longer is selected
C24_Witness ==
    /\ last.op = "preview"
    /\ last.status = "FINISHED"
    /\ last.method = "REFERENCE"
    /\ last.reference_obj \notin selected
    /\ selected # {}

\* the reference of the comparison is a selectable mesh of positive volume
PositiveReference ==
    /\ last.op = "by_reference"
    /\ Selectable(last.reference_obj)
    /\ objects[last.reference_obj].type = "MESH"
    /\ objects[last.reference_obj].eval = "mesh"
    /\ objects[last.reference_obj].vertices > 0
    /\ objects[last.reference_obj].calc = "ok"
    /\ objects[last.reference_obj].volume > 0

\* the objects with a mesh of vertices and a positive volume
PositiveSolids ==
    {o \in Objs : /\ objects[o].vertices > 0
                  /\ objects[o].calc = "ok"
                  /\ objects[o].volume > 0}

SkippedObjects == {last.skipped_objects[i][1] : i \in 1..Len(last.skipped_objects)}

\* C26: every object an Execute relocates or counts as skipped is an object
\* of the current scene, the population analyze_scene enumerates, and the
\* percentage a Preview stores is at most 100.
C26_SceneObjectsOnly ==
    [][/\ last'.op = "execute" =>
             (last'.relocated \cup SkippedObjects') \subseteq scene_objects
       /\ last'.op = "preview" =>
             ~RatLess(RatOfInt(100), props'.preview_percentage)]_vars

\* the valid objects of the scene whose volume is strictly below the
\* threshold of the last resolution
BelowResolved ==
    {o \in ValidInScene : RatLess(RatOfInt(objects[o].volume), last.threshold_volume)}

\* C27: the objects_in_percentile that process_percentile_method returns is
\* the number of valid objects of the scene whose volume is strictly below
\* the threshold_volume it returns.
C27_CountIsObjectsBelow ==
    (last.op = "resolve" /\ last.method = "percentile" /\ last.success) =>
        last.objects_count = Cardinality(BelowResolved)

\* percentile 80 resolved on three valid objects of one volume: none is
\* below the threshold, two are reported
C27_Witness ==
    /\ last.op = "resolve"
    /\ last.method = "percentile"
    /\ last.success
    /\ last.value = 80
    /\ Cardinality(ValidInScene) = 3
    /\ BelowResolved = {}
    /\ last.objects_count = 2

\* the objects the last run skipped with the reason "Failed to move"
FailedToMove ==
    {last.skipped_objects[i][1] :
        i \in {k \in 1..Len(last.skipped_objects) :
                  last.skipped_objects[k][2] = "Failed to move"}}

\* C28: an object whose relocation fails during collect_smaller_objects is
\* counted as skipped with a "Failed to move" reason and not as collected,
\* it is linked to the collections it was linked to before the run, which
\* are not none, and the objects after it are still processed.
C28_FailedMoveLeavesObject ==
    [][last'.op = "execute" =>
          /\ \A o \in FailedToMove' :
                /\ o \notin last'.relocated
                /\ users_collection'[o] = users_collection[o]
                /\ users_collection'[o] # {}
          /\ last'.skipped_count = Len(last'.skipped_objects)
          /\ last'.collected_count = Cardinality(last'.relocated)
          /\ last'.status = "FINISHED" =>
                \A o \in Objs :
                    (Measurable(o) /\ RatLess(RatOfInt(objects[o].volume),
                                              last'.threshold_volume))
                        => o \in last'.relocated \cup FailedToMove']_vars

\* two objects in a row failed to move and are linked to no collection
C28_Witness ==
    /\ last.op = "execute"
    /\ Cardinality(FailedToMove) = 2
    /\ last.skipped_count = 2
    /\ last.relocated = {}
    /\ \A o \in FailedToMove : users_collection[o] = {}

\* the largest valid volume of the population of the last resolution
LargestOfPopulation == volume_values(last.population)[Len(last.population)]

\* C29: the threshold a statistics-based method resolves with an accepted
\* parameter is above 0 and not above the largest valid volume, so that the
\* largest valid object, whose volume is not strictly below it, is never
\* collected by an Execute.
C29_LargestStays ==
    last.op = "threshold" =>
        /\ FloatLess(FloatZero, last.threshold)
        /\ ~FloatLess(LargestOfPopulation, last.threshold)

\* three objects of volume 0.1 and 100 percent of the average: the threshold
\* is above every volume
C29_Witness ==
    /\ last.op = "threshold"
    /\ last.method = "percentage_average"
    /\ last.value = 100
    /\ last.population = <<1, 1, 1>>
    /\ FloatLess(LargestOfPopulation, last.threshold)

\* the stored preview state
PreviewState ==
    <<props.preview_active, props.preview_object_count,
      props.preview_polygon_count, props.preview_percentage>>

\* C30: after every invocation of Analyze, Preview, Clear Preview and
\* Execute, the counts and the percentage of the preview are 0 whenever
\* preview_active is False; an Execute that went through and a Clear Preview
\* leave preview_active False; a cancelled Preview or Execute leaves the
\* preview state as it was.
C30_PreviewStateConsistent ==
    [][/\ ~props'.preview_active =>
             /\ props'.preview_object_count = 0
             /\ props'.preview_polygon_count = 0
             /\ props'.preview_percentage = Zero
       /\ (last'.op = "execute" /\ last'.status = "FINISHED") => ~props'.preview_active
       /\ last'.op = "clear_preview" => ~props'.preview_active
       /\ (last'.op \in {"preview", "execute"} /\ last'.status = "CANCELLED") =>
             PreviewState' = PreviewState]_vars

\* a cancelled Execute has left the state of a preview of some objects
C30_Witness ==
    /\ last.op = "execute"
    /\ last.status = "CANCELLED"
    /\ props.preview_active
    /\ props.preview_object_count > 0
    /\ props.analysis_done

====
